---------------------------- MODULE Spec2Model ----------------------------
(***************************************************************************)
(* Notification delivery pipeline of the blog platform:                    *)
(*   BlogService.create -> Redis list (event queue) -> worker loop ->      *)
(*   NotificationService.createMarker (marker table, Postgres sequence)    *)
(*   -> local PubSub + Redis channel -> subscription listeners,            *)
(* the per-user read cursor (user_notification_state), the marker queries  *)
(* and the client-side notification store.                                 *)
(***************************************************************************)
EXTENDS Integers, Sequences, FiniteSets, TLC

(* ------------------------------ bounds --------------------------------- *)
\* number of blog ids that createBlog may be called for
MaxBlogs == 2
\* number of blogs created while subscription listeners come and go
MaxBusBlogs == 1

None == 0
BlogIds == 1..MaxBlogs
\* backend processes, each with its own worker loop, PubSub and subscriber
Instances == {"i1", "i2"}
\* subscription listeners and the instance each one is connected to
Listeners == {"a", "c"}
Users == {"u1", "u2"}
\* requests served at the same time
Handlers == {"h1", "h2"}
\* largest markerVersion a client passes to updateLastSeenMarkerVersion
MaxSeen == 2
\* client queries under way at the same time
MaxFetches == 2
\* times the subscription hands the client the same marker
MaxDeliveries == 2
\* the user the client store belongs to
Me == "u1"
SeenArgs == -1..MaxSeen
\* users.createdAt (ms)
UserCreatedAt(u) == IF u = "u1" THEN 5000 ELSE 5001
\* blog.createdAt values (ms): 2 s before u1 registered, on u1's horizon,
\* 1 ms inside it, 1 ms after u1 registered
BlogTimes == {3000, 4000, 4001, 5001}
\* createdAt of the blogs written while the pipeline runs
Now == 5001
NoCursor == -1
Off == -2
CursorArgs == {NoCursor, 0, 1}

VARIABLES
  blogs,        \* blog table: blog id -> createdAt (ms), for the rows there
  cpc,          \* BlogService.create per blog id: position of the handler
  cres,         \* BlogService.create per blog id: what the caller observed
  redisUp,      \* whether the Redis server is reachable
  queue,        \* Redis list blog_created_events, head first
  seq,          \* last value handed out by the marker table's sequence
  markers,      \* notification_markers rows, in commit order
  wpc,          \* worker loop per instance: position
  wev,          \* worker loop per instance: the dequeued event (a blog id)
  wver,         \* worker loop per instance: markerVersion of the saved row
  wfloor,       \* history: highest version returned when this call began
  retMax,       \* history: highest version returned by createMarker so far
  inbox,        \* per instance: channel messages not yet handled
  lsub,         \* per listener: Off, NoCursor or the cursor it subscribed with
  received,     \* per listener: the versions delivered to it, in order
  audience,     \* history: per version, listeners connected since its publish
  sent,         \* history: versions whose Redis publish was accepted
  cursor,       \* user_notification_state: userId -> lastSeenMarkerVersion
  hpc,          \* request handler: "idle", or the await it is suspended at
  hreq,         \* request handler: operation, user, argument, row it read
  reply,        \* what the last request served on its own returned
  prev,         \* history: the request served before it
  cmarkers,     \* client store: markers.value, as markerVersions
  wasConnected, \* client store: wasConnected
  ws,           \* client: the subscription and the socket under it
  creq,         \* client: queries sent and not yet executed by the server
  cresp,        \* client: query results on their way back
  clive,        \* history: per version, live payloads the client was given
  pub,          \* the last payload given to the publish calls and what became of it
  sub,          \* channel subscriber: the last message handled and what became of it
  isProcessing, \* worker loop of one instance: isProcessing
  processingInterval, \* worker loop: the timer handle kept, 0 for null
  timers,       \* worker loop: handles of the setTimeout callbacks pending
  nBrpop,       \* worker loop: processQueue calls awaiting the dequeue
  nEvent,       \* worker loop: processQueue calls processing an event
  lqueue,       \* worker loop: events waiting in the queue
  ldone,        \* history: events whose processing has ended
  lstop,        \* history: ldone when stopProcessing was last called
  outage,       \* history: per instance, the dequeue of the cycle that just ended
                \* failed with Redis unreachable
  lost,         \* history: events a worker held when its process died
  trip,         \* the last payload sent over the channel: the payload, the
                \* message text and what the subscriber rebuilt from it
  enq,          \* history: the blog ids of the events, in the order of their lpush
  rr,           \* createMarker, the last call: what its re-reads returned and how
                \* it went on
  failed,       \* history: the versions whose createMarker call threw after
                \* its save
  retry         \* the Redis connection that is reconnecting: which one, the
                \* attempts so far, the delay before the next one and the
                \* delay before this one

pipeVars == <<blogs, cpc, cres, redisUp, queue, seq, markers, wpc, wev, wver,
              wfloor, retMax>>
busVars == <<inbox, lsub, received, audience, sent>>
cursorVars == <<cursor, hpc, hreq>>
queryVars == <<reply, prev>>
clientVars == <<cmarkers, wasConnected, ws, creq, cresp, clive>>
wireVars == <<pub, sub, retry>>
loopVars == <<isProcessing, processingInterval, timers, nBrpop, nEvent, lqueue,
              ldone, lstop>>
histVars == <<lost, trip, rr, failed>>
\* enq is written by the specifications that follow the order of the enqueues
auxVars == <<wireVars, loopVars, outage, histVars, enq, enq>>
vars == <<pipeVars, busVars, cursorVars, queryVars, clientVars, auxVars>>

ListenerInstance(l) == IF l = "c" THEN "i2" ELSE "i1"

Max(a, b) == IF a >= b THEN a ELSE b

RECURSIVE SeqMax(_)
SeqMax(s) == IF s = <<>> THEN 0 ELSE Max(Head(s), SeqMax(Tail(s)))

Versions(ms) == {ms[k].markerVersion : k \in 1..Len(ms)}

Count(s, v) == Cardinality({k \in 1..Len(s) : s[k] = v})

(* --------------------------- BlogService.create ------------------------ *)
\* blogRepository.save(blog)
CreateSave(b, t) ==
  /\ cpc[b] = "new"
  /\ blogs' = [x \in DOMAIN blogs \cup {b} |-> IF x = b THEN t ELSE blogs[x]]
  /\ cpc' = [cpc EXCEPT ![b] = "reload"]
  /\ UNCHANGED <<auxVars, cres, redisUp, queue, seq, markers, wpc, wev, wver, wfloor,
                 retMax, busVars, cursorVars, queryVars, clientVars>>

\* blogRepository.findOne(savedBlog.id); throws when the row is gone
CreateReload(b) ==
  /\ cpc[b] = "reload"
  /\ IF b \in DOMAIN blogs
       THEN /\ cpc' = [cpc EXCEPT ![b] = "enqueue"]
            /\ cres' = cres
       ELSE /\ cpc' = [cpc EXCEPT ![b] = "done"]
            /\ cres' = [cres EXCEPT ![b] = "loadError"]
  /\ UNCHANGED <<auxVars, blogs, redisUp, queue, seq, markers, wpc, wev, wver, wfloor,
                 retMax, busVars, cursorVars, queryVars, clientVars>>

\* a push to the end the workers pop from
LpushTail(q, e) == q \o <<e>>

\* redis.lpush(QUEUE_NAME, ...): the new element becomes the head of the list
Lpush(q, e) == <<e>> \o q

\* what create does with a rejected enqueue: the awaited call is not guarded,
\* enqueueBlogCreatedEvent logs and rethrows
EnqueueRejected == "enqueueError"

\* enqueueBlogCreatedEvent succeeds; create returns the blog
CreateEnqueueOk(b) ==
  /\ cpc[b] = "enqueue"
  /\ redisUp
  /\ queue' = Lpush(queue, b)
  /\ cpc' = [cpc EXCEPT ![b] = "done"]
  /\ cres' = [cres EXCEPT ![b] = "ok"]
  /\ UNCHANGED <<wireVars, loopVars, outage, histVars, blogs, redisUp, seq,
                 markers, wpc, wev, wver, wfloor, retMax, busVars, cursorVars,
                 queryVars, clientVars>>

\* lpush rejects
CreateEnqueueFail(b) ==
  /\ cpc[b] = "enqueue"
  /\ ~redisUp
  /\ cpc' = [cpc EXCEPT ![b] = "done"]
  /\ cres' = [cres EXCEPT ![b] = EnqueueRejected]
  /\ UNCHANGED <<auxVars, blogs, redisUp, queue, seq, markers, wpc, wev, wver, wfloor,
                 retMax, busVars, cursorVars, queryVars, clientVars>>


\* a delete that takes the markers of the blog with it (ON DELETE CASCADE)
RemoveBlogCascade(b) ==
  /\ b \in DOMAIN blogs
  /\ \A i \in Instances : ~(wpc[i] = "commit" /\ wev[i] = b)
  /\ blogs' = [x \in DOMAIN blogs \ {b} |-> blogs[x]]
  /\ markers' = SelectSeq(markers, LAMBDA r : r.blogId # b)
  /\ UNCHANGED <<auxVars, cpc, cres, redisUp, queue, seq, wpc, wev, wver,
                 wfloor, retMax, busVars, cursorVars, queryVars, clientVars>>

\* BlogService.remove: the marker table's foreign key (blogId, no onDelete)
\* refuses the delete while a marker row, committed or being inserted,
\* references the blog
RemoveBlog(b) ==
  /\ b \in DOMAIN blogs
  /\ \A k \in 1..Len(markers) : markers[k].blogId # b
  /\ \A i \in Instances : ~(wpc[i] = "commit" /\ wev[i] = b)
  /\ blogs' = [x \in DOMAIN blogs \ {b} |-> blogs[x]]
  /\ UNCHANGED <<auxVars, cpc, cres, redisUp, queue, seq, markers, wpc, wev, wver,
                 wfloor, retMax, busVars, cursorVars, queryVars, clientVars>>

\* the Redis server becomes unreachable / reachable again
RedisDown ==
  /\ redisUp
  /\ redisUp' = FALSE
  /\ UNCHANGED <<auxVars, blogs, cpc, cres, queue, seq, markers, wpc, wev, wver,
                 wfloor, retMax, busVars, cursorVars, queryVars, clientVars>>

RedisBack ==
  /\ ~redisUp
  /\ redisUp' = TRUE
  /\ UNCHANGED <<auxVars, blogs, cpc, cres, queue, seq, markers, wpc, wev, wver,
                 wfloor, retMax, busVars, cursorVars, queryVars, clientVars>>

\* copies of one event that reach the workers
MaxCopies == 2

\* what became of blog b's event so far: copies on the list, held by a worker
\* or turned into a marker
Copies(b) ==
  Count(queue, b) + Cardinality({i \in Instances : wev[i] = b})
    + Cardinality({k \in 1..Len(markers) : markers[k].blogId = b})

\* enqueueBlogCreatedEvent, redis.lpush applied a second time: the connection
\* drops after the server ran the command and before its reply arrived, and
\* the client sends the command again once it is back
EnqueueResent(b) ==
  /\ Count(queue, b) > 0
  /\ Copies(b) < MaxCopies
  /\ queue' = Lpush(queue, b)
  /\ UNCHANGED <<auxVars, blogs, cpc, cres, redisUp, seq, markers, wpc, wev, wver,
                 wfloor, retMax, busVars, cursorVars, queryVars, clientVars>>

(* ------------------- NotificationWorkerService.processQueue ------------ *)
\* setTimeout callback: processQueue() runs again and awaits the dequeue
TimerFires(i) ==
  /\ wpc[i] = "timer"
  /\ wpc' = [wpc EXCEPT ![i] = "brpop"]
  /\ outage' = [outage EXCEPT ![i] = FALSE]
  /\ UNCHANGED <<wireVars, loopVars, histVars, enq, blogs, cpc, cres, redisUp, queue, seq, markers, wev, wver,
                 wfloor, retMax, busVars, cursorVars, queryVars, clientVars>>

\* the positions of a worker loop that is running
WorkerPositions ==
  {"timer", "brpop", "findOne", "save", "commit", "reread", "publishLocal",
   "publishRedis"}

\* a dequeue that reads the tail of the list and leaves it there
DequeuePeek(i) ==
  /\ wpc[i] = "brpop"
  /\ redisUp
  /\ queue # <<>>
  /\ wev' = [wev EXCEPT ![i] = queue[Len(queue)]]
  /\ wpc' = [wpc EXCEPT ![i] = "findOne"]
  /\ UNCHANGED <<auxVars, blogs, cpc, cres, redisUp, queue, seq, markers, wver,
                 wfloor, retMax, busVars, cursorVars, queryVars, clientVars>>

\* redis.brpop(QUEUE_NAME, timeout) hands over the tail of the list
Dequeue(i) ==
  /\ wpc[i] = "brpop"
  /\ redisUp
  /\ queue # <<>>
  /\ wev' = [wev EXCEPT ![i] = queue[Len(queue)]]
  /\ queue' = SubSeq(queue, 1, Len(queue) - 1)
  /\ wpc' = [wpc EXCEPT ![i] = "findOne"]
  /\ UNCHANGED <<auxVars, blogs, cpc, cres, redisUp, seq, markers, wver, wfloor,
                 retMax, busVars, cursorVars, queryVars, clientVars>>

\* a dequeue whose failure ends the loop instead of returning null
DequeueNullRaises(i) ==
  /\ wpc[i] = "brpop"
  /\ queue = <<>> \/ ~redisUp
  /\ wpc' = [wpc EXCEPT ![i] = IF redisUp THEN "timer" ELSE "ended"]
  /\ outage' = [outage EXCEPT ![i] = ~redisUp]
  /\ UNCHANGED <<wireVars, loopVars, histVars, enq, blogs, cpc, cres, redisUp, queue, seq,
                 markers, wev, wver, wfloor, retMax, busVars, cursorVars,
                 queryVars, clientVars>>

\* brpop times out on an empty list, or fails and the error is swallowed:
\* dequeueBlogCreatedEvent returns null and the finally block schedules the
\* next cycle
DequeueNull(i) ==
  /\ wpc[i] = "brpop"
  /\ queue = <<>> \/ ~redisUp
  /\ wpc' = [wpc EXCEPT ![i] = "timer"]
  /\ outage' = [outage EXCEPT ![i] = ~redisUp]
  /\ UNCHANGED <<wireVars, loopVars, histVars, enq, blogs, cpc, cres, redisUp, queue, seq, markers, wev, wver,
                 wfloor, retMax, busVars, cursorVars, queryVars, clientVars>>

\* a lookup that goes on to createMarker whether or not the blog is there
FindBlogUnchecked(i) ==
  /\ wpc[i] = "findOne"
  /\ wpc' = [wpc EXCEPT ![i] = "save"]
  /\ wfloor' = [wfloor EXCEPT ![i] = retMax]
  /\ UNCHANGED <<auxVars, blogs, cpc, cres, redisUp, queue, seq, markers, wev,
                 wver, retMax, busVars, cursorVars, queryVars, clientVars>>

\* processBlogCreatedEvent: blogService.findOne(event.blogId); a missing blog
\* raises NotFoundException, which is logged and ends this cycle
FindBlog(i) ==
  /\ wpc[i] = "findOne"
  /\ IF wev[i] \in DOMAIN blogs
       THEN /\ wpc' = [wpc EXCEPT ![i] = "save"]
            /\ wfloor' = [wfloor EXCEPT ![i] = retMax]
            /\ wev' = wev
       ELSE /\ wpc' = [wpc EXCEPT ![i] = "timer"]
            /\ wev' = [wev EXCEPT ![i] = None]
            /\ wfloor' = wfloor
  /\ UNCHANGED <<auxVars, blogs, cpc, cres, redisUp, queue, seq, markers, wver,
                 retMax, busVars, cursorVars, queryVars, clientVars>>

(* -------------------- NotificationService.createMarker ----------------- *)
\* the version computed by the application from the rows it can see
\* (read-max-then-add-one) instead of the sequence
NextVersionReadMax(last, rows) == SeqMax([k \in 1..Len(rows) |-> rows[k].markerVersion]) + 1

\* @PrimaryGeneratedColumn: the INSERT takes markerVersion from the table's
\* sequence (nextval); given the sequence's last value and the committed rows
NextVersion(last, rows) == last + 1

\* a save whose failure puts the event back on the queue
SaveInsertRequeues(i) ==
  /\ wpc[i] = "save"
  /\ seq' = NextVersion(seq, markers)
  /\ IF wev[i] \in DOMAIN blogs
       THEN /\ wver' = [wver EXCEPT ![i] = NextVersion(seq, markers)]
            /\ wpc' = [wpc EXCEPT ![i] = "commit"]
            /\ wev' = wev
            /\ queue' = queue
       ELSE /\ wver' = wver
            /\ wpc' = [wpc EXCEPT ![i] = "timer"]
            /\ wev' = [wev EXCEPT ![i] = None]
            /\ queue' = Lpush(queue, wev[i])
  /\ UNCHANGED <<auxVars, blogs, cpc, cres, redisUp, markers, wfloor, retMax,
                 busVars, cursorVars, queryVars, clientVars>>

\* markerRepository.save(marker), first half: the INSERT runs inside the
\* transaction save() opens. The sequence advances at once and for good; a
\* missing blog row violates the foreign key and the save throws.
SaveInsert(i) ==
  /\ wpc[i] = "save"
  /\ seq' = NextVersion(seq, markers)
  /\ IF wev[i] \in DOMAIN blogs
       THEN /\ wver' = [wver EXCEPT ![i] = NextVersion(seq, markers)]
            /\ wpc' = [wpc EXCEPT ![i] = "commit"]
            /\ wev' = wev
       ELSE /\ wver' = wver
            /\ wpc' = [wpc EXCEPT ![i] = "timer"]
            /\ wev' = [wev EXCEPT ![i] = None]
  /\ UNCHANGED <<auxVars, blogs, cpc, cres, redisUp, queue, markers, wfloor, retMax,
                 busVars, cursorVars, queryVars, clientVars>>

\* a save whose transaction is rolled back and whose error ends the cycle
SaveAbort(i) ==
  /\ wpc[i] = "commit"
  /\ wpc' = [wpc EXCEPT ![i] = "timer"]
  /\ wev' = [wev EXCEPT ![i] = None]
  /\ wver' = [wver EXCEPT ![i] = None]
  /\ UNCHANGED <<auxVars, blogs, cpc, cres, redisUp, queue, seq, markers, wfloor,
                 retMax, busVars, cursorVars, queryVars, clientVars>>

\* a save that returns before its row is committed: createMarker goes on to
\* its publishes with no row in the table
SaveUncommitted(i) ==
  /\ wpc[i] = "commit"
  /\ wpc' = [wpc EXCEPT ![i] = "reread"]
  /\ UNCHANGED <<auxVars, blogs, cpc, cres, redisUp, queue, seq, markers, wev, wver,
                 wfloor, retMax, busVars, cursorVars, queryVars, clientVars>>

\* markerRepository.save(marker), second half: COMMIT makes the row durable
\* and visible to every other connection
SaveCommit(i) ==
  /\ wpc[i] = "commit"
  /\ markers' = Append(markers, [markerVersion |-> wver[i], blogId |-> wev[i]])
  /\ wpc' = [wpc EXCEPT ![i] = "reread"]
  /\ UNCHANGED <<auxVars, blogs, cpc, cres, redisUp, queue, seq, wev, wver, wfloor,
                 retMax, busVars, cursorVars, queryVars, clientVars>>

\* markerRepository.findOne({markerVersion}, relations blog, blog.author):
\* the row is committed and its blog cannot have been deleted
Reread(i) ==
  /\ wpc[i] = "reread"
  /\ wpc' = [wpc EXCEPT ![i] = "publishLocal"]
  /\ UNCHANGED <<auxVars, blogs, cpc, cres, redisUp, queue, seq, markers, wev, wver,
                 wfloor, retMax, busVars, cursorVars, queryVars, clientVars>>


(* --------------------- a backend process dies -------------------------- *)
\* the positions between the dequeue and the COMMIT of the marker
Uncommitted == {"findOne", "save", "commit"}

\* a death after which the event in hand is back on the list
CrashRequeues(i) ==
  /\ wpc[i] # "down"
  /\ lost' = IF wpc[i] \in Uncommitted THEN lost \cup {wev[i]} ELSE lost
  /\ queue' = IF wpc[i] \in Uncommitted THEN Lpush(queue, wev[i]) ELSE queue
  /\ wpc' = [wpc EXCEPT ![i] = "down"]
  /\ wev' = [wev EXCEPT ![i] = None]
  /\ wver' = [wver EXCEPT ![i] = None]
  /\ inbox' = [inbox EXCEPT ![i] = <<>>]
  /\ lsub' = [l \in Listeners |-> IF ListenerInstance(l) = i THEN Off ELSE lsub[l]]
  /\ audience' = [v \in DOMAIN audience |->
                    {l \in audience[v] : ListenerInstance(l) # i}]
  /\ outage' = [outage EXCEPT ![i] = FALSE]
  /\ UNCHANGED <<wireVars, loopVars, trip, rr, failed, enq, blogs, cpc, cres, redisUp,
                 seq, markers, wfloor, retMax, received, sent, cursorVars,
                 queryVars, clientVars>>

\* the process of instance i dies at any await of processQueue: the event it
\* dequeued lives only in the local variable of that call, an open
\* transaction is rolled back by the database (the sequence value stays
\* used), the subscriber connection and the registered listeners are gone
Crash(i) ==
  /\ wpc[i] # "down"
  /\ lost' = IF wpc[i] \in Uncommitted THEN lost \cup {wev[i]} ELSE lost
  /\ wpc' = [wpc EXCEPT ![i] = "down"]
  /\ wev' = [wev EXCEPT ![i] = None]
  /\ wver' = [wver EXCEPT ![i] = None]
  /\ inbox' = [inbox EXCEPT ![i] = <<>>]
  /\ lsub' = [l \in Listeners |-> IF ListenerInstance(l) = i THEN Off ELSE lsub[l]]
  /\ audience' = [v \in DOMAIN audience |->
                    {l \in audience[v] : ListenerInstance(l) # i}]
  /\ outage' = [outage EXCEPT ![i] = FALSE]
  /\ UNCHANGED <<wireVars, loopVars, trip, rr, failed, enq, blogs, cpc, cres, redisUp,
                 queue, seq, markers, wfloor, retMax, received, sent,
                 cursorVars, queryVars, clientVars>>

\* the process starts again: onModuleInit calls startProcessing, and the
\* first processQueue call awaits the dequeue
Restart(i) ==
  /\ wpc[i] = "down"
  /\ wpc' = [wpc EXCEPT ![i] = "brpop"]
  /\ UNCHANGED <<auxVars, blogs, cpc, cres, redisUp, queue, seq, markers, wev, wver,
                 wfloor, retMax, busVars, cursorVars, queryVars, clientVars>>

(* ------------------ createMarker: the re-read of the row --------------- *)
\* what findOne({markerVersion}, relations blog, blog.author) can return:
\* null, a marker without its blog, a marker whose blog has no author, or
\* the marker with both
ReadOutcomes == {"noMarker", "noBlog", "noAuthor", "complete"}

NoReread == [first |-> "unread", second |-> "unread", reads |-> 0, outcome |-> "none"]

\* createMarker after the save, given what the first findOne returns and what
\* a second one would: a missing marker or blog throws at once, a missing
\* author is read again, once, and throws when it is missing again
RereadResult(r1, r2) ==
  IF r1 \in {"noMarker", "noBlog"}
    THEN [first |-> r1, second |-> "unread", reads |-> 1, outcome |-> "error"]
  ELSE IF r1 = "noAuthor"
    THEN [first |-> r1, second |-> r2, reads |-> 2,
          outcome |-> IF r2 = "complete" THEN "ok" ELSE "error"]
  ELSE [first |-> r1, second |-> "unread", reads |-> 1, outcome |-> "ok"]

\* a createMarker call gets past its save and re-reads the row
MarkerReread(r1, r2) ==
  /\ rr' = RereadResult(r1, r2)
  /\ UNCHANGED <<pipeVars, busVars, cursorVars, queryVars, clientVars,
                 wireVars, loopVars, outage, lost, trip, failed, enq>>

(* ------------------ local fan-out and the Redis channel ---------------- *)
\* a filter that lets the cursor's own version through
AcceptsFrom(c, version) == c = NoCursor \/ version >= c

\* NotificationResolver, filter of the newNotificationMarker subscription
Accepts(c, version) == c = NoCursor \/ version > c

\* safePublishMarker, the checks before pubSub.publish
ValidPayload(version) == version > 0

\* a fan-out that also hands the payload to listeners that are not registered
DeliverUnregistered(i, version) ==
  [l \in Listeners |->
     IF ListenerInstance(l) = i /\ (lsub[l] = Off \/ Accepts(lsub[l], version))
       THEN Append(received[l], version)
       ELSE received[l]]

\* pubSub.publish('newNotificationMarker', payload): every listener that is
\* registered on the instance now, and whose filter lets the payload through
Deliver(i, version) ==
  [l \in Listeners |->
     IF ListenerInstance(l) = i /\ lsub[l] # Off /\ Accepts(lsub[l], version)
       THEN Append(received[l], version)
       ELSE received[l]]

\* a failure after which the inserted row is gone again
CreateMarkerThrowsRollsBack(i) ==
  /\ \/ wpc[i] = "reread"
     \/ wpc[i] = "publishLocal" /\ ~ValidPayload(wver[i])
  /\ failed' = failed \cup {wver[i]}
  /\ markers' = SelectSeq(markers, LAMBDA r : r.markerVersion # wver[i])
  /\ wpc' = [wpc EXCEPT ![i] = "timer"]
  /\ wev' = [wev EXCEPT ![i] = None]
  /\ wver' = [wver EXCEPT ![i] = None]
  /\ UNCHANGED <<wireVars, loopVars, outage, lost, trip, rr, enq, blogs, cpc, cres,
                 redisUp, queue, seq, wfloor, retMax, busVars, cursorVars,
                 queryVars, clientVars>>

\* createMarker throws after its save has returned: the re-read rejects or
\* comes back without the row, the blog or, twice, the author (312-333), or
\* safePublishMarker rejects the payload before it publishes (208-232).
\* Nothing undoes the committed row; processBlogCreatedEvent logs and
\* rethrows, processQueue logs and schedules the next cycle
CreateMarkerThrows(i) ==
  /\ \/ wpc[i] = "reread"
     \/ wpc[i] = "publishLocal" /\ ~ValidPayload(wver[i])
  /\ failed' = failed \cup {wver[i]}
  /\ wpc' = [wpc EXCEPT ![i] = "timer"]
  /\ wev' = [wev EXCEPT ![i] = None]
  /\ wver' = [wver EXCEPT ![i] = None]
  /\ UNCHANGED <<wireVars, loopVars, outage, lost, trip, rr, enq, blogs, cpc, cres,
                 redisUp, queue, seq, markers, wfloor, retMax, busVars, cursorVars,
                 queryVars, clientVars>>

\* createMarker: await this.safePublishMarker(markerPayload)
PublishLocal(i) ==
  /\ wpc[i] = "publishLocal"
  /\ ValidPayload(wver[i])
  /\ received' = Deliver(i, wver[i])
  /\ audience' = [audience EXCEPT ![wver[i]] = {l \in Listeners : lsub[l] # Off}]
  /\ wpc' = [wpc EXCEPT ![i] = "publishRedis"]
  /\ UNCHANGED <<auxVars, blogs, cpc, cres, redisUp, queue, seq, markers, wev, wver,
                 wfloor, retMax, inbox, lsub, sent, cursorVars, queryVars, clientVars>>

\* a publish that reaches no subscriber connection
BroadcastNone(version) == inbox

\* redis.publish(NOTIFICATION_CHANNEL, ...): the server hands the message to
\* the subscriber connection of every running instance, the publishing one
\* included
Broadcast(version) ==
  [j \in Instances |->
     IF wpc[j] = "down" THEN inbox[j] ELSE Append(inbox[j], version)]

\* a publish whose failure is thrown on to the caller of createMarker
PublishRedisRaises(i) ==
  /\ wpc[i] = "publishRedis"
  /\ IF redisUp
       THEN /\ inbox' = Broadcast(wver[i])
            /\ sent' = sent \cup {wver[i]}
            /\ retMax' = Max(retMax, wver[i])
       ELSE /\ inbox' = inbox
            /\ sent' = sent
            /\ retMax' = retMax
  /\ wpc' = [wpc EXCEPT ![i] = "timer"]
  /\ wev' = [wev EXCEPT ![i] = None]
  /\ wver' = [wver EXCEPT ![i] = None]
  /\ UNCHANGED <<auxVars, blogs, cpc, cres, redisUp, queue, seq, markers, wfloor,
                 lsub, received, audience, cursorVars,
                 queryVars, clientVars>>

\* createMarker: await this.safePublishToRedis(markerPayload); return. A
\* failed publish is logged and swallowed.
PublishRedis(i) ==
  /\ wpc[i] = "publishRedis"
  /\ IF redisUp
       THEN /\ inbox' = Broadcast(wver[i])
            /\ sent' = sent \cup {wver[i]}
       ELSE /\ inbox' = inbox
            /\ sent' = sent
  /\ retMax' = Max(retMax, wver[i])
  /\ wpc' = [wpc EXCEPT ![i] = "timer"]
  /\ wev' = [wev EXCEPT ![i] = None]
  /\ wver' = [wver EXCEPT ![i] = None]
  /\ UNCHANGED <<auxVars, blogs, cpc, cres, redisUp, queue, seq, markers, wfloor,
                 lsub, received, audience, cursorVars,
                 queryVars, clientVars>>

\* onModuleInit, redisSubscriber.on('message'): parse, rebuild the payload,
\* safePublishMarker; an invalid message is logged and dropped
OnMessage(i) ==
  /\ inbox[i] # <<>>
  /\ inbox' = [inbox EXCEPT ![i] = Tail(inbox[i])]
  /\ received' = IF ValidPayload(Head(inbox[i]))
                   THEN Deliver(i, Head(inbox[i]))
                   ELSE received
  /\ UNCHANGED <<auxVars, pipeVars, cursorVars, queryVars, clientVars, lsub, audience, sent>>

\* subscribeToNewMarkers(cursor): pubSub.asyncIterator registers a listener
Subscribe(l, c) ==
  /\ lsub[l] = Off
  /\ lsub' = [lsub EXCEPT ![l] = c]
  /\ UNCHANGED <<auxVars, pipeVars, cursorVars, queryVars, clientVars, inbox, received, audience, sent>>

\* the client closes the subscription
Unsubscribe(l) ==
  /\ lsub[l] # Off
  /\ lsub' = [lsub EXCEPT ![l] = Off]
  /\ audience' = [v \in DOMAIN audience |-> audience[v] \ {l}]
  /\ UNCHANGED <<auxVars, pipeVars, cursorVars, queryVars, clientVars, inbox, received, sent>>


(* ------------- worker loop of one instance: start and stop ------------ *)
\* processQueue chains (a call in flight or a timer pending) alive at once
MaxChains == 2
\* events enqueued for the instance's loop
MaxLoopEvents == 2

\* timer handles; the one kept in processingInterval may have fired already
Handles == 1..(MaxChains + 1)

\* setTimeout returns a handle that is no pending timer's and not the kept one
FreshHandle ==
  CHOOSE h \in Handles \ (timers \cup {processingInterval}) :
    \A g \in Handles \ (timers \cup {processingInterval}) : h <= g

Chains == nBrpop + nEvent + Cardinality(timers)

\* a loop that never looks at the flag
StillProcessingAlways(flag) == TRUE

\* the tests of this.isProcessing at the top of processQueue and in finally
StillProcessing(flag) == flag

\* startProcessing: returns when the flag is set; else sets it and calls
\* processQueue, which runs up to its await of the dequeue
StartProcessing ==
  /\ ~isProcessing
  /\ Chains < MaxChains
  /\ isProcessing' = TRUE
  /\ nBrpop' = nBrpop + 1
  /\ UNCHANGED <<pipeVars, busVars, cursorVars, queryVars, clientVars,
                 wireVars, outage, histVars, enq, processingInterval, timers, nEvent,
                 lqueue, ldone, lstop>>

\* stopProcessing: clears the flag and the kept timer
StopProcessing ==
  /\ isProcessing
  /\ isProcessing' = FALSE
  /\ timers' = timers \ {processingInterval}
  /\ processingInterval' = 0
  /\ lstop' = ldone
  /\ UNCHANGED <<pipeVars, busVars, cursorVars, queryVars, clientVars,
                 wireVars, outage, histVars, enq, nBrpop, nEvent, lqueue, ldone>>

\* the setTimeout callback: processQueue returns at once when the flag is
\* clear, else it awaits the dequeue
TimerCallback(h) ==
  /\ h \in timers
  /\ timers' = timers \ {h}
  /\ nBrpop' = IF StillProcessing(isProcessing) THEN nBrpop + 1 ELSE nBrpop
  /\ UNCHANGED <<pipeVars, busVars, cursorVars, queryVars, clientVars,
                 wireVars, outage, histVars, enq, isProcessing, processingInterval, nEvent,
                 lqueue, ldone, lstop>>

\* the dequeue of one call returns: an event, which the call goes on to
\* process, or null, after which finally schedules the next cycle when the
\* flag is set
DequeueReturns ==
  /\ nBrpop > 0
  /\ nBrpop' = nBrpop - 1
  /\ IF lqueue > 0
       THEN /\ lqueue' = lqueue - 1
            /\ nEvent' = nEvent + 1
            /\ UNCHANGED <<timers, processingInterval>>
       ELSE /\ UNCHANGED <<lqueue, nEvent>>
            /\ IF StillProcessing(isProcessing)
                 THEN /\ timers' = timers \cup {FreshHandle}
                      /\ processingInterval' = FreshHandle
                 ELSE UNCHANGED <<timers, processingInterval>>
  /\ UNCHANGED <<pipeVars, busVars, cursorVars, queryVars, clientVars,
                 wireVars, outage, histVars, enq, isProcessing, ldone, lstop>>

\* processBlogCreatedEvent returns or throws; finally schedules the next
\* cycle when the flag is set
EventProcessed ==
  /\ nEvent > 0
  /\ nEvent' = nEvent - 1
  /\ ldone' = ldone + 1
  /\ IF StillProcessing(isProcessing)
       THEN /\ timers' = timers \cup {FreshHandle}
            /\ processingInterval' = FreshHandle
       ELSE UNCHANGED <<timers, processingInterval>>
  /\ UNCHANGED <<pipeVars, busVars, cursorVars, queryVars, clientVars,
                 wireVars, outage, histVars, enq, isProcessing, nBrpop, lqueue, lstop>>

\* a blog creation puts an event on the queue
LoopEnqueue ==
  /\ lqueue + nEvent + ldone < MaxLoopEvents
  /\ lqueue' = lqueue + 1
  /\ UNCHANGED <<pipeVars, busVars, cursorVars, queryVars, clientVars,
                 wireVars, outage, histVars, enq, isProcessing, processingInterval, timers,
                 nBrpop, nEvent, ldone, lstop>>

(* ------------- marker payloads: validation before publishing ---------- *)
\* a JavaScript value in a markerVersion field; a number is kept as its count
\* of halves, so that 2 is the number 1 and 3 is the number 1.5
Num(h) == [kind |-> "number", halves |-> h]

NotNum(k) == [kind |-> k, halves |-> 0]

\* what a caller can pass as payload.markerVersion
PayloadVersions ==
  {Num(h) : h \in {-2, 0, 1, 2, 3}}
    \cup {NotNum("NaN"), NotNum("string"), NotNum("undefined")}

\* what JSON.parse can yield as parsedMarker.markerVersion: JSON has no NaN
MessageVersions == PayloadVersions \ {NotNum("NaN")}

\* typeof v === 'number'
TypeofNumber(v) == v.kind \in {"number", "NaN"}

\* v <= 0, which is false for NaN
LeqZero(v) == v.kind = "number" /\ v.halves <= 0

IsPositiveInteger(v) == v.kind = "number" /\ v.halves > 0 /\ v.halves % 2 = 0

\* payloads: blog is whether payload.blog is an object, blogId whether
\* blog.id is set, authorObjId whether blog.author.id is set, authorId whether
\* blog.authorId is set; createdAt is a Date, a Date whose time is NaN, or
\* not a Date at all
Payloads ==
  [markerVersion : PayloadVersions, blog : BOOLEAN, blogId : BOOLEAN,
   authorObjId : BOOLEAN, authorId : BOOLEAN,
   createdAt : {"date", "invalidDate", "string"}]

\* safePublishMarker: none of its checks throws
Validated(p) ==
  /\ TypeofNumber(p.markerVersion)
  /\ ~LeqZero(p.markerVersion)
  /\ p.blog
  /\ p.blogId
  /\ (p.authorObjId \/ p.authorId)
  /\ p.createdAt \in {"date", "invalidDate"}

\* safePublishToRedis builds the message with payload.createdAt.toISOString(),
\* which throws for a Date whose time is NaN; the error is logged and
\* swallowed and nothing is sent
Serializable(p) == p.createdAt = "date"

NoPublish ==
  [payload |-> [markerVersion |-> NotNum("undefined"), blog |-> FALSE,
                blogId |-> FALSE, authorObjId |-> FALSE, authorId |-> FALSE,
                createdAt |-> "string"],
   result |-> "none", local |-> FALSE, bus |-> FALSE]

\* createMarker's two publish calls for payload p: safePublishMarker, which
\* throws or hands p to the local listeners, then safePublishToRedis
PublishPayload(p) ==
  /\ pub' = IF Validated(p)
              THEN [payload |-> p, result |-> "published", local |-> TRUE,
                    bus |-> Serializable(p)]
              ELSE [payload |-> p, result |-> "rejected", local |-> FALSE,
                    bus |-> FALSE]
  /\ UNCHANGED <<pipeVars, busVars, cursorVars, queryVars, clientVars,
                 loopVars, outage, histVars, enq, sub, retry>>

(* ------------- channel subscriber: messages from the bus --------------- *)
\* invalid messages the subscriber is seen to drop
MaxDropped == 2

\* channel messages: parses is whether JSON.parse accepts the text, the
\* other fields are those of the parsed object; createdAt is an ISO string,
\* another string, or missing
Messages ==
  [parses : BOOLEAN, markerVersion : MessageVersions, blog : BOOLEAN,
   blogId : BOOLEAN, authorObjId : BOOLEAN, authorId : BOOLEAN,
   createdAt : {"iso", "garbage", "missing"}]

\* the payload the handler rebuilds: createdAt: new Date(parsedMarker.createdAt)
Reconstruct(m) ==
  [markerVersion |-> m.markerVersion, blog |-> TRUE, blogId |-> m.blogId,
   authorObjId |-> m.authorObjId, authorId |-> m.authorId,
   createdAt |-> IF m.createdAt = "iso" THEN "date" ELSE "invalidDate"]

\* redisSubscriber.on('message'): JSON.parse, the rebuild (which throws on a
\* missing blog) and safePublishMarker run inside one try/catch
HandleMessage(m) ==
  IF m.parses /\ m.blog /\ Validated(Reconstruct(m))
    THEN "delivered"
    ELSE "dropped"

NoMessage ==
  [msg |-> [parses |-> FALSE, markerVersion |-> NotNum("undefined"),
            blog |-> FALSE, blogId |-> FALSE, authorObjId |-> FALSE,
            authorId |-> FALSE, createdAt |-> "missing"],
   outcome |-> "none", dropped |-> 0, alive |-> TRUE]

\* the channel hands message m to the subscriber of an instance
OnWireMessage(m) ==
  /\ sub.alive
  /\ HandleMessage(m) = "dropped" => sub.dropped < MaxDropped
  /\ sub' = [msg |-> m,
             outcome |-> HandleMessage(m),
             dropped |-> IF HandleMessage(m) = "dropped"
                           THEN sub.dropped + 1 ELSE sub.dropped,
             alive |-> HandleMessage(m) \in {"delivered", "dropped"}]
  /\ UNCHANGED <<pipeVars, busVars, cursorVars, queryVars, clientVars,
                 loopVars, outage, histVars, enq, pub, retry>>

(* ------------- the channel message: built, sent, rebuilt -------------- *)
\* largest markerVersion of a payload sent over the channel
MaxWireVersion == 2

\* Date values, as ms since the epoch
Instants == {0, 999, 1000, 61001}

\* strings, as sequences of characters: a letter, a double quote (q) and a
\* backslash (b)
Texts == {<<"a">>, <<"q", "a">>, <<"a", "b", "q">>}

\* JSON.stringify of a string, without the enclosing quotes: a quote or a
\* backslash is preceded by a backslash
RECURSIVE Escape(_)
Escape(t) ==
  IF t = <<>> THEN <<>>
  ELSE (IF Head(t) \in {"q", "b"} THEN <<"b", Head(t)>> ELSE <<Head(t)>>)
         \o Escape(Tail(t))

\* JSON.parse of a string literal
RECURSIVE Unescape(_)
Unescape(t) ==
  IF t = <<>> THEN <<>>
  ELSE IF Head(t) = "b"
         THEN <<t[2]>> \o Unescape(Tail(Tail(t)))
         ELSE <<Head(t)>> \o Unescape(Tail(t))

\* Date.prototype.toISOString: date and time to the second, and the
\* milliseconds as three digits
ToISOString(t) == [seconds |-> t \div 1000, millis |-> t % 1000]

\* a parse that keeps whole seconds only
NewDateSeconds(iso) == iso.seconds * 1000

\* new Date(isoString)
NewDate(iso) == iso.seconds * 1000 + iso.millis

\* a || b on numbers: 0 and undefined (written 0) are falsy
OrElse(a, b) == IF a # 0 THEN a ELSE b

\* blog.author when the relation is not loaded
NoAuthor == [present |-> FALSE, id |-> "", username |-> <<>>, createdAt |-> 0]

\* the payloads createMarker and its callers can publish: a positive integer
\* version, cursor unset (0) or set, a blog with its id, texts and dates,
\* authorId set or not, the author relation loaded or not
WirePayloads ==
  [markerVersion : 1..MaxWireVersion,
   cursor : 0..MaxWireVersion,
   blogId : {"b1"},
   title : Texts,
   content : {<<"a">>, <<"b">>},
   blogCreatedAt : Instants,
   authorId : {"", "u1"},
   author : {NoAuthor,
             [present |-> TRUE, id |-> "u1", username |-> <<"q", "a">>,
              createdAt |-> 999]},
   createdAt : Instants]

\* safePublishToRedis: JSON.stringify(redisPayload); a property whose value
\* is undefined is left out of the text
Serialize(p) ==
  [markerVersion |-> p.markerVersion,
   blogId |-> p.blogId,
   title |-> Escape(p.title),
   content |-> Escape(p.content),
   blogCreatedAt |-> ToISOString(p.blogCreatedAt),
   authorId |-> p.authorId,
   author |-> IF p.author.present
                THEN [present |-> TRUE, id |-> p.author.id,
                      username |-> Escape(p.author.username),
                      createdAt |-> ToISOString(p.author.createdAt)]
                ELSE [present |-> FALSE, id |-> "", username |-> <<>>,
                      createdAt |-> ToISOString(0)],
   createdAt |-> ToISOString(p.createdAt),
   cursor |-> OrElse(p.cursor, p.markerVersion)]

\* the 'message' handler: JSON.parse(message) and the payload rebuilt from
\* it, the dates through new Date(...)
Rebuild(msg) ==
  [markerVersion |-> msg.markerVersion,
   cursor |-> OrElse(msg.markerVersion, msg.cursor),
   blogId |-> msg.blogId,
   title |-> Unescape(msg.title),
   content |-> Unescape(msg.content),
   blogCreatedAt |-> NewDate(msg.blogCreatedAt),
   authorId |-> msg.authorId,
   author |-> IF msg.author.present
                THEN [present |-> TRUE, id |-> msg.author.id,
                      username |-> Unescape(msg.author.username),
                      createdAt |-> NewDate(msg.author.createdAt)]
                ELSE NoAuthor,
   createdAt |-> NewDate(msg.createdAt)]

NoTrip == [stage |-> "none"]

\* safePublishToRedis(p): the message is on the channel; one message is
\* followed from the publisher to a subscriber
SendOnWire(p) ==
  /\ trip.stage = "none"
  /\ trip' = [stage |-> "sent", payload |-> p, message |-> Serialize(p)]
  /\ UNCHANGED <<pipeVars, busVars, cursorVars, queryVars, clientVars,
                 wireVars, loopVars, outage, lost, rr, failed, enq>>

\* the subscriber of an instance takes the message off the channel
TakeOffWire ==
  /\ trip.stage = "sent"
  /\ trip' = [stage |-> "rebuilt", payload |-> trip.payload,
              message |-> trip.message, rebuilt |-> Rebuild(trip.message)]
  /\ UNCHANGED <<pipeVars, busVars, cursorVars, queryVars, clientVars,
                 wireVars, loopVars, outage, lost, rr, failed, enq>>

(* ------------------ read cursor: NotificationService ------------------- *)
NoRequest == [op |-> "none", user |-> "u1", arg |-> 0, found |-> FALSE, lsv |-> 0]

HasRow(u) == u \in DOMAIN cursor

\* userStateRepository.save(entity): the row of the entity's userId is
\* inserted, or updated to the entity's lastSeenMarkerVersion when it exists
SaveRow(u, lsv) == [x \in DOMAIN cursor \cup {u} |-> IF x = u THEN lsv ELSE cursor[x]]

\* markAsSeen keeps whatever was passed last
MarkAsSeenLastWins(found, lsv, markerVersion) == markerVersion

\* markAsSeen: the lastSeenMarkerVersion of the entity it saves, from the row
\* findOne returned (found, lsv) and the argument
MarkAsSeenValue(found, lsv, markerVersion) ==
  IF ~found THEN markerVersion ELSE Max(lsv, markerVersion)

\* a request arrives: the handler awaits userStateRepository.findOne
Call(h, op, u, v) ==
  /\ hpc[h] = "idle"
  /\ hpc' = [hpc EXCEPT ![h] = "findOne"]
  /\ hreq' = [hreq EXCEPT ![h] = [op |-> op, user |-> u, arg |-> v,
                                  found |-> FALSE, lsv |-> 0]]
  /\ UNCHANGED <<auxVars, pipeVars, busVars, clientVars, queryVars, cursor>>

\* findOne({ where: { userId } }) answers. getUserState, getUnreadMarkers and
\* getUnreadCount go on to their queries when the row exists, and create it
\* otherwise; markAsSeen always saves.
FindState(h) ==
  /\ hpc[h] = "findOne"
  /\ hreq' = [hreq EXCEPT ![h].found = HasRow(hreq[h].user),
                          ![h].lsv = IF HasRow(hreq[h].user)
                                       THEN cursor[hreq[h].user] ELSE 0]
  /\ hpc' = [hpc EXCEPT ![h] =
               IF hreq[h].op # "markAsSeen" /\ HasRow(hreq[h].user)
                 THEN "query" ELSE "save"]
  /\ UNCHANGED <<auxVars, pipeVars, busVars, clientVars, queryVars, cursor>>

\* markAsSeen: return this.userStateRepository.save(userState)
MarkAsSeenSave(h) ==
  /\ hpc[h] = "save"
  /\ hreq[h].op = "markAsSeen"
  /\ cursor' = SaveRow(hreq[h].user,
                       MarkAsSeenValue(hreq[h].found, hreq[h].lsv, hreq[h].arg))
  /\ hpc' = [hpc EXCEPT ![h] = "idle"]
  /\ hreq' = [hreq EXCEPT ![h] = NoRequest]
  /\ UNCHANGED <<auxVars, pipeVars, busVars, clientVars, queryVars>>

\* the reads: save(create({ userId, lastSeenMarkerVersion: 0 }))
CreateState(h) ==
  /\ hpc[h] = "save"
  /\ hreq[h].op # "markAsSeen"
  /\ cursor' = SaveRow(hreq[h].user, 0)
  /\ hpc' = [hpc EXCEPT ![h] = "query"]
  /\ UNCHANGED <<auxVars, pipeVars, busVars, clientVars, queryVars, hreq>>

\* the rest of a read (the user and marker queries) changes no row
Answer(h) ==
  /\ hpc[h] = "query"
  /\ hpc' = [hpc EXCEPT ![h] = "idle"]
  /\ hreq' = [hreq EXCEPT ![h] = NoRequest]
  /\ UNCHANGED <<auxVars, pipeVars, busVars, clientVars, queryVars, cursor>>

(* ---------------- marker queries: NotificationService ----------------- *)
NoReply == [op |-> "none", user |-> "u1", arg |-> 0, hadRow |-> FALSE,
            prior |-> 0, lsv |-> 0, count |-> 0, list |-> <<>>]

\* the grace subtracted from the registration time, in ms
GraceMs == 1000

\* the filter date without the grace
HorizonNoGrace(u) == UserCreatedAt(u)

\* new Date(freshUser.createdAt.getTime() - 1000)
Horizon(u) == UserCreatedAt(u) - GraceMs

\* rows of marker joined with blog that pass
\* .where('blog.createdAt > :userCreatedAt')
Visible(u) ==
  {k \in 1..Len(markers) :
     /\ markers[k].blogId \in DOMAIN blogs
     /\ blogs[markers[k].blogId] > Horizon(u)}

\* the comparison taken inclusively
AfterInclusive(lsv) == {k \in 1..Len(markers) : markers[k].markerVersion >= lsv}

\* rows that pass markerVersion > lastSeenMarkerVersion (MoreThan)
After(lsv) == {k \in 1..Len(markers) : markers[k].markerVersion > lsv}

\* ORDER BY markerVersion ASC / DESC over the selected rows
RECURSIVE OrderBy(_, _)
OrderBy(rows, desc) ==
  IF rows = {} THEN <<>>
  ELSE LET pick == IF desc
                     THEN CHOOSE k \in rows : \A j \in rows :
                            markers[k].markerVersion >= markers[j].markerVersion
                     ELSE CHOOSE k \in rows : \A j \in rows :
                            markers[k].markerVersion <= markers[j].markerVersion
       IN <<markers[pick].markerVersion>> \o OrderBy(rows \ {pick}, desc)

\* reads that start from 0 whatever the row holds
LazyLsvReset(u) == 0

\* the cursor the reads work with: the row, or the one created at 0
LazyLsv(u) == IF HasRow(u) THEN cursor[u] ELSE 0

\* the count without the andWhere on blog.createdAt
UnreadCountNoHorizon(u, lsv) == Cardinality(After(lsv))

\* getUnreadCount: the count query, given the lastSeenMarkerVersion it read
UnreadCount(u, lsv) == Cardinality(After(lsv) \cap Visible(u))

Served(op, u, v, lsv, count, list) ==
  /\ reply' = [op |-> op, user |-> u, arg |-> v, hadRow |-> HasRow(u),
               prior |-> LazyLsv(u), lsv |-> lsv, count |-> count,
               list |-> list]
  /\ UNCHANGED <<auxVars, pipeVars, busVars, clientVars, hpc, hreq>>

\* AuthResolver.notificationState -> getUserState
GetUserState(u) ==
  /\ cursor' = SaveRow(u, LazyLsv(u))
  /\ Served("getUserState", u, 0, LazyLsv(u), 0, <<>>)

\* AuthResolver.unreadMarkers -> getUnreadMarkers
GetUnreadMarkers(u) ==
  /\ cursor' = SaveRow(u, LazyLsv(u))
  /\ Served("getUnreadMarkers", u, 0, LazyLsv(u), 0,
            OrderBy(After(LazyLsv(u)), FALSE))

\* AuthResolver.allMarkers -> getAllMarkers: the cursor is not read
GetAllMarkers(u) ==
  /\ cursor' = cursor
  /\ Served("getAllMarkers", u, 0, 0, 0, OrderBy(Visible(u), TRUE))

\* AuthResolver.unreadNotificationCount -> getUnreadCount
GetUnreadCount(u) ==
  /\ cursor' = SaveRow(u, LazyLsv(u))
  /\ Served("getUnreadCount", u, 0, LazyLsv(u),
            UnreadCount(u, LazyLsv(u)), <<>>)

\* AuthResolver.updateLastSeenMarkerVersion: markAsSeen, then getUnreadCount,
\* answering { count, lastSeenMarkerVersion: userState.lastSeenMarkerVersion }
UpdateLastSeenMarkerVersion(u, v) ==
  LET stored == MarkAsSeenValue(HasRow(u), LazyLsv(u), v)
  IN /\ cursor' = SaveRow(u, stored)
     /\ Served("markAsSeen", u, v, stored, UnreadCount(u, stored), <<>>)

(* ------------------- client: useNotificationStore --------------------- *)
\* Array.prototype.sort((a, b) => b.markerVersion - a.markerVersion)
RECURSIVE InsertDesc(_, _)
InsertDesc(s, v) ==
  IF s = <<>> THEN <<v>>
  ELSE IF v > Head(s) THEN <<v>> \o s
  ELSE <<Head(s)>> \o InsertDesc(Tail(s), v)

\* the sort left out: the array stays in the order it was built in
SortNone(s) == s

RECURSIVE SortDesc(_)
SortDesc(s) == IF s = <<>> THEN <<>> ELSE InsertDesc(SortDesc(Tail(s)), Head(s))

\* the check left out: every payload is taken as new
ExistsNever(list, v) == FALSE

\* markers.value.some((m) => m.markerVersion === newMarker.markerVersion)
Exists(list, v) == \E k \in 1..Len(list) : list[k] = v

\* fetchedMarkers.filter((m) => !existingVersions.has(m.markerVersion))
NewMarkers(fetched, list) == SelectSeq(fetched, LAMBDA v : ~Exists(list, v))

Busy == Cardinality(creq) + Cardinality(cresp)

\* fetchAllMarkers / fetchUnreadMarkers: apolloClient.query is sent
Fetch(kind) ==
  /\ Busy < MaxFetches
  /\ creq' = creq \cup {kind}
  /\ UNCHANGED <<auxVars, pipeVars, busVars, cursorVars, queryVars, cmarkers,
                 wasConnected, ws, cresp, clive>>

\* the server runs allMarkers (getAllMarkers) or unreadMarkers
\* (getUnreadMarkers, which creates the cursor row when there is none)
ServerAnswers(kind) ==
  /\ kind \in creq
  /\ creq' = creq \ {kind}
  /\ cresp' = cresp \cup
       {[kind |-> kind,
         data |-> IF kind = "all" THEN OrderBy(Visible(Me), TRUE)
                  ELSE OrderBy(After(LazyLsv(Me)), FALSE)]}
  /\ cursor' = IF kind = "all" THEN cursor ELSE SaveRow(Me, LazyLsv(Me))
  /\ UNCHANGED <<auxVars, pipeVars, busVars, hpc, hreq, queryVars, cmarkers,
                 wasConnected, ws, clive>>

\* fetchAllMarkers, after the await: markers.value = fetchedMarkers.sort(...)
ApplyAll(r) ==
  /\ r \in cresp
  /\ r.kind = "all"
  /\ cresp' = cresp \ {r}
  /\ cmarkers' = SortDesc(r.data)
  /\ UNCHANGED <<auxVars, pipeVars, busVars, cursorVars, queryVars, wasConnected, ws,
                 creq, clive>>

\* fetchUnreadMarkers, after the await: what is not in the list yet is put
\* in front of it and the list is sorted
ApplyUnread(r) ==
  /\ r \in cresp
  /\ r.kind = "unread"
  /\ cresp' = cresp \ {r}
  /\ cmarkers' = IF NewMarkers(r.data, cmarkers) # <<>>
                   THEN SortDesc(NewMarkers(r.data, cmarkers) \o cmarkers)
                   ELSE cmarkers
  /\ UNCHANGED <<auxVars, pipeVars, busVars, cursorVars, queryVars, wasConnected, ws,
                 creq, clive>>

\* startSubscription, the next handler: if (!wasConnected) fetchAllMarkers()
Refetch(flag) == ~flag

\* startSubscription, the next handler: a payload for a committed marker
\* arrives over the open socket; the observable calls next only until it has
\* called error
LiveReceipt(v) ==
  /\ ws \in {"open", "reopened"}
  /\ ws' = "open"
  /\ v \in Versions(markers)
  /\ clive[v] < MaxDeliveries
  /\ clive' = [clive EXCEPT ![v] = @ + 1]
  /\ creq' = IF Refetch(wasConnected) THEN creq \cup {"all"} ELSE creq
  /\ wasConnected' = TRUE
  /\ cmarkers' = IF Exists(cmarkers, v) THEN cmarkers
                 ELSE SortDesc(<<v>> \o cmarkers)
  /\ UNCHANGED <<auxVars, pipeVars, busVars, cursorVars, queryVars, cresp>>

\* startSubscription, the error handler: the socket closed for good (a fatal
\* close code such as 4401) and the observable ended with it
SubscriptionError ==
  /\ wasConnected
  /\ ws # "ended"
  /\ ws' = "ended"
  /\ wasConnected' = FALSE
  /\ UNCHANGED <<auxVars, pipeVars, busVars, cursorVars, queryVars, cmarkers, creq,
                 cresp, clive>>

\* createClient({shouldRetry: () => true, retryAttempts: Infinity}): the
\* connection is lost, and the graphql-ws client goes on retrying without
\* telling the subscription
SocketClosed ==
  /\ ws \in {"open", "reopened"}
  /\ ws' = "closed"
  /\ UNCHANGED <<auxVars, pipeVars, busVars, cursorVars, queryVars, cmarkers,
                 wasConnected, creq, cresp, clive>>

\* a retry connects and the client sends the subscription again; what was
\* published in between is not replayed
SocketReopened ==
  /\ ws = "closed"
  /\ ws' = "reopened"
  /\ UNCHANGED <<auxVars, pipeVars, busVars, cursorVars, queryVars, cmarkers,
                 wasConnected, creq, cresp, clive>>

\* the worker of some instance saves a marker for a blog created at t:
\* createMarker's save, seen from the client as one step
MarkerSaved(b, t) ==
  /\ b \notin DOMAIN blogs
  /\ b = seq + 1
  /\ blogs' = [x \in DOMAIN blogs \cup {b} |-> IF x = b THEN t ELSE blogs[x]]
  /\ seq' = NextVersion(seq, markers)
  /\ markers' = Append(markers, [markerVersion |-> NextVersion(seq, markers),
                                 blogId |-> b])
  /\ UNCHANGED <<auxVars, cpc, cres, redisUp, queue, wpc, wev, wver, wfloor, retMax,
                 busVars, cursorVars, queryVars, clientVars>>

(* ----------------------- Redis reconnection --------------------------- *)
\* the three ioredis clients of an instance
Connections == {"publisher", "subscriber", "queue"}

\* attempts followed; the delay reaches its ceiling at attempt 600
MaxAttempts == 601

Min(a, b) == IF a <= b THEN a ELSE b

\* a delay that grows without a ceiling
RetryStrategyUncapped(times) == times * 50

\* NotificationService, publisher: retryStrategy: (times) =>
\* Math.min(times * 50, 30000)
RetryStrategyPublisher(times) == Min(times * 50, 30000)

\* NotificationService, subscriber: the same function
RetryStrategySubscriber(times) == Min(times * 50, 30000)

\* NotificationQueueService: the same function
RetryStrategyQueue(times) == Min(times * 50, 30000)

RetryStrategy(c, times) ==
  CASE c = "publisher" -> RetryStrategyPublisher(times)
    [] c = "subscriber" -> RetryStrategySubscriber(times)
    [] c = "queue" -> RetryStrategyQueue(times)

NoRetry == [conn |-> "none", times |-> 0, delay |-> 0, last |-> 0]

\* ioredis, on 'close': the attempt count goes up by one and retryStrategy
\* is called with it; a number is the delay before the next attempt
ConnectionClosed(c) ==
  /\ retry.conn \in {"none", c}
  /\ retry.times < MaxAttempts
  /\ retry' = [conn |-> c, times |-> retry.times + 1,
               delay |-> RetryStrategy(c, retry.times + 1), last |-> retry.delay]
  /\ UNCHANGED <<pipeVars, busVars, cursorVars, queryVars, clientVars, pub, sub,
                 loopVars, outage, histVars, enq>>

\* ioredis, on 'connect': the attempt count starts again
Connected ==
  /\ retry.conn # "none"
  /\ retry' = NoRetry
  /\ UNCHANGED <<pipeVars, busVars, cursorVars, queryVars, clientVars, pub, sub,
                 loopVars, outage, histVars, enq>>

(* ------------------------------ pipeline ------------------------------- *)
Init ==
  /\ blogs = <<>>
  /\ cpc = [b \in BlogIds |-> "new"]
  /\ cres = [b \in BlogIds |-> "none"]
  /\ redisUp = TRUE
  /\ queue = <<>>
  /\ seq = 0
  /\ markers = <<>>
  /\ wpc = [i \in Instances |-> "brpop"]
  /\ wev = [i \in Instances |-> None]
  /\ wver = [i \in Instances |-> None]
  /\ wfloor = [i \in Instances |-> 0]
  /\ retMax = 0
  /\ inbox = [i \in Instances |-> <<>>]
  /\ lsub = [l \in Listeners |-> Off]
  /\ received = [l \in Listeners |-> <<>>]
  /\ audience = [v \in BlogIds |-> {}]
  /\ sent = {}
  /\ cursor = <<>>
  /\ hpc = [h \in Handlers |-> "idle"]
  /\ hreq = [h \in Handlers |-> NoRequest]
  /\ reply = NoReply
  /\ prev = NoReply
  /\ cmarkers = <<>>
  /\ wasConnected = TRUE
  /\ ws = "open"
  /\ creq = {}
  /\ cresp = {}
  /\ clive = [v \in BlogIds |-> 0]
  /\ pub = NoPublish
  /\ sub = NoMessage
  /\ isProcessing = FALSE
  /\ processingInterval = 0
  /\ timers = {}
  /\ nBrpop = 0
  /\ nEvent = 0
  /\ lqueue = 0
  /\ ldone = 0
  /\ lstop = 0
  /\ outage = [i \in Instances |-> FALSE]
  /\ lost = {}
  /\ trip = NoTrip
  /\ enq = <<>>
  /\ rr = NoReread
  /\ failed = {}
  /\ retry = NoRetry

Producer(ids) ==
  \E b \in ids :
    \/ CreateSave(b, Now)
    \/ CreateReload(b)
    \/ CreateEnqueueOk(b) /\ UNCHANGED enq
    \/ CreateEnqueueFail(b)
    \/ RemoveBlog(b)

Worker ==
  \E i \in Instances :
    \/ TimerFires(i)
    \/ Dequeue(i)
    \/ DequeueNull(i)
    \/ FindBlog(i)
    \/ SaveInsert(i)
    \/ SaveCommit(i)
    \/ Reread(i)
    \/ PublishLocal(i)
    \/ PublishRedis(i)
    \/ OnMessage(i)

Next == Producer(BlogIds) \/ Worker \/ RedisDown \/ RedisBack

Spec == Init /\ [][Next]_vars

Clients == \E l \in Listeners : Unsubscribe(l) \/ \E c \in CursorArgs : Subscribe(l, c)

NextBus == Producer(1..MaxBusBlogs) \/ Worker \/ RedisDown \/ RedisBack \/ Clients

SpecBus == Init /\ [][NextBus]_vars

\* the pipeline with Redis reachable throughout and no blog deleted, and the
\* listeners
Authors(ids) ==
  \E b \in ids :
    \/ CreateSave(b, Now)
    \/ CreateReload(b)
    \/ CreateEnqueueOk(b) /\ UNCHANGED enq

NextFanout == Authors(1..MaxBusBlogs) \/ Worker \/ Clients

SpecFanout == Init /\ [][NextFanout]_vars


(* ------------------------- claims: write path -------------------------- *)
\* C1: no two committed markers share a version, and a createMarker call
\* that begins after another call has returned is given a version strictly
\* greater than every version returned before it began, whichever worker
\* instances make the calls.
C1_UniqueIncreasingVersions ==
  /\ \A j, k \in 1..Len(markers) :
       j # k => markers[j].markerVersion # markers[k].markerVersion
  /\ \A i \in Instances : wver[i] # None => wver[i] > wfloor[i]

\* two markers are committed and the call that is about to return the second
\* began after the first had been returned
C1_Witness ==
  /\ Len(markers) = 2
  /\ \E i \in Instances :
       wpc[i] = "publishRedis" /\ wver[i] = 2 /\ wfloor[i] = 1

\* C2: for any two committed markers A and B, A.version < B.version if and
\* only if A was committed before B.
C2_VersionOrderIsCommitOrder ==
  \A j, k \in 1..Len(markers) :
    (j < k) <=> (markers[j].markerVersion < markers[k].markerVersion)

\* C8: a create call whose blog row was written and read back returns the
\* blog: the outcome of the enqueue is never observed by the caller.
C8_CreateSucceedsWithoutPipeline ==
  \A b \in BlogIds :
    (cpc[b] = "done" /\ cres[b] # "loadError") => cres[b] = "ok"

\* C9: once the channel has handed a marker's message to every instance,
\* every listener that has been connected since the marker was published,
\* and whose cursor lets the version through, has received it exactly once.
C9_DeliveredExactlyOnce ==
  \A v \in sent :
    (\A j \in Instances : Count(inbox[j], v) = 0) =>
      \A l \in audience[v] :
        Accepts(lsub[l], v) => Count(received[l], v) = 1

\* C15: when the worker's lookup finds that the blog of the dequeued event
\* no longer exists, that step creates no marker and takes no value from the
\* sequence, and the worker is scheduled for its next cycle with no event in
\* hand.
C15_MissingBlogSkipped ==
  [][\A i \in Instances :
       (/\ wpc[i] = "findOne"
        /\ wpc'[i] # "findOne"
        /\ wev[i] \notin DOMAIN blogs) =>
         /\ markers' = markers
         /\ seq' = seq
         /\ wver'[i] = None
         /\ wev'[i] = None
         /\ wpc'[i] = "timer"]_vars

\* the event of a deleted blog has been taken off the queue and given up,
\* and the only marker, made for the other blog, has version 1
C15_Witness ==
  /\ \E b \in BlogIds :
       /\ cres[b] = "ok"
       /\ b \notin DOMAIN blogs
       /\ Count(queue, b) = 0
       /\ \A i \in Instances : wev[i] # b
  /\ seq = 1
  /\ Len(markers) = 1
  /\ markers[1].markerVersion = 1

C17_DequeueSurvivesOutage ==
  [][\A i \in Instances :
       /\ (wpc[i] = "brpop" /\ ~redisUp /\ wpc'[i] # "brpop") =>
            /\ wpc'[i] = "timer"
            /\ queue' = queue
            /\ wev'[i] = None
       /\ outage'[i] => wpc'[i] = "timer"]_vars

\* a worker has polled during the outage: an event is still waiting and the
\* next cycle is scheduled
C17_Witness ==
  /\ ~redisUp
  /\ queue # <<>>
  /\ \E i \in Instances : outage[i] /\ wpc[i] = "timer"

\* C20: with several workers polling the queue, an enqueued event is in the
\* queue or in the hand of one worker, never of two, and the marker table
\* never holds two markers for one blog.
C20_OneWorkerPerEvent ==
  \A b \in BlogIds :
    /\ Count(queue, b) + Cardinality({i \in Instances : wev[i] = b}) <= 1
    /\ Cardinality({k \in 1..Len(markers) : markers[k].blogId = b}) <= 1

\* both workers hold an event at the same time, one of them with the marker
\* of its blog already committed
C20_Witness ==
  /\ \A i \in Instances : wev[i] # None
  /\ Len(markers) = 1

\* this step is a pubSub.publish of version v on instance i: by createMarker
\* on the instance, or by its subscriber for a valid channel message
LocalPublish(i, v) ==
  \/ wpc[i] = "publishLocal" /\ wpc'[i] = "publishRedis" /\ v = wver[i]
  \/ inbox[i] # <<>> /\ inbox'[i] = Tail(inbox[i]) /\ v = Head(inbox[i]) /\ v > 0

\* C11: a listener that subscribed with cursor c is handed only versions
\* greater than c, and a listener that subscribed without a cursor is handed
\* every version published on its instance's fan-out while it is connected.
C11_CursorFilter ==
  [][\A l \in Listeners :
       /\ (lsub[l] >= 0 /\ received'[l] # received[l]) =>
            /\ Len(received'[l]) = Len(received[l]) + 1
            /\ received'[l][Len(received'[l])] > lsub[l]
       /\ \A v \in BlogIds :
            (lsub[l] = NoCursor /\ LocalPublish(ListenerInstance(l), v)) =>
              received'[l] = Append(received[l], v)]_vars

\* version 1 has been published everywhere; a listener connected throughout
\* with cursor 1 was handed nothing, one connected without cursor was
C11_Witness ==
  /\ 1 \in sent
  /\ \A j \in Instances : inbox[j] = <<>>
  /\ \E l, k \in Listeners :
       /\ lsub[l] = 1 /\ l \in audience[1] /\ received[l] = <<>>
       /\ lsub[k] = NoCursor /\ k \in audience[1] /\ received[k] # <<>>

ReadOps == {"getUserState", "getUnreadMarkers", "getUnreadCount"}

Requests ==
  \E h \in Handlers :
    \/ \E u \in Users, v \in 1..MaxSeen : Call(h, "markAsSeen", u, v)
    \/ \E u \in Users, op \in ReadOps : Call(h, op, u, 0)
    \/ FindState(h)
    \/ MarkAsSeenSave(h)
    \/ CreateState(h)
    \/ Answer(h)

NextCursor == Requests

SpecCursor == Init /\ [][NextCursor]_vars

\* C3: whatever markSeen calls and cursor-creating reads run at the same
\* time for a user, the stored lastSeenVersion never decreases from one
\* state to the next.
C3_CursorNeverRegresses ==
  [][\A u \in Users : HasRow(u) => cursor'[u] >= cursor[u]]_vars


(* ----------------- requests served one after the other ----------------- *)
\* a store the pipeline has filled: n blogs, one marker for each
InitQuery ==
  \E n \in 0..MaxBlogs :
    /\ blogs \in [1..n -> BlogTimes]
    /\ markers = [k \in 1..n |-> [markerVersion |-> k, blogId |-> k]]
    /\ seq = n
    /\ retMax = n
    /\ cpc = [b \in BlogIds |-> IF b <= n THEN "done" ELSE "new"]
    /\ cres = [b \in BlogIds |-> IF b <= n THEN "ok" ELSE "none"]
    /\ redisUp = TRUE
    /\ queue = <<>>
    /\ wpc = [i \in Instances |-> "brpop"]
    /\ wev = [i \in Instances |-> None]
    /\ wver = [i \in Instances |-> None]
    /\ wfloor = [i \in Instances |-> 0]
    /\ inbox = [i \in Instances |-> <<>>]
    /\ lsub = [l \in Listeners |-> Off]
    /\ received = [l \in Listeners |-> <<>>]
    /\ audience = [v \in BlogIds |-> {}]
    /\ sent = {}
    /\ cursor = <<>>
    /\ hpc = [h \in Handlers |-> "idle"]
    /\ hreq = [h \in Handlers |-> NoRequest]
    /\ reply = NoReply
    /\ prev = NoReply
    /\ cmarkers = <<>>
    /\ wasConnected = TRUE
    /\ ws = "open"
    /\ creq = {}
    /\ cresp = {}
    /\ clive = [v \in BlogIds |-> 0]
    /\ pub = NoPublish
    /\ sub = NoMessage
    /\ isProcessing = FALSE
    /\ processingInterval = 0
    /\ timers = {}
    /\ nBrpop = 0
    /\ nEvent = 0
    /\ lqueue = 0
    /\ ldone = 0
    /\ lstop = 0
  /\ outage = [i \in Instances |-> FALSE]
  /\ lost = {}
  /\ trip = NoTrip
  /\ enq = <<>>
  /\ rr = NoReread
  /\ failed = {}
  /\ retry = NoRetry

NextQuery ==
  \E u \in Users :
    \/ GetUserState(u) /\ UNCHANGED prev
    \/ GetUnreadMarkers(u) /\ UNCHANGED prev
    \/ GetAllMarkers(u) /\ UNCHANGED prev
    \/ GetUnreadCount(u) /\ UNCHANGED prev
    \/ \E v \in SeenArgs : UpdateLastSeenMarkerVersion(u, v) /\ UNCHANGED prev

SpecQuery == InitQuery /\ [][NextQuery]_vars

\* the same requests on an empty store, remembering the one served before
NextSeen ==
  \E u \in Users :
    \/ GetUserState(u) /\ prev' = reply
    \/ GetUnreadMarkers(u) /\ prev' = reply
    \/ GetAllMarkers(u) /\ prev' = reply
    \/ GetUnreadCount(u) /\ prev' = reply
    \/ \E v \in SeenArgs : UpdateLastSeenMarkerVersion(u, v) /\ prev' = reply

SpecSeen == Init /\ [][NextSeen]_vars


(* ------------------------ claims: cursor, queries ---------------------- *)
\* the markers a user's registration horizon lets through: blog created
\* after the registration time minus one second
InHorizon(u) ==
  {k \in 1..Len(markers) : blogs[markers[k].blogId] > UserCreatedAt(u) - 1000}

TwoMarkSeen ==
  /\ prev.op = "markAsSeen"
  /\ reply.op = "markAsSeen"
  /\ prev.user = reply.user

\* marker versions start at 1
IsVersion(v) == v >= 1

\* C4 as stated: for any two versions v1 and v2, after markSeen(user, v1)
\* and markSeen(user, v2) have completed one after the other, the stored
\* lastSeenVersion is max(v1, v2).
C4_MaxOfTwo ==
  (TwoMarkSeen /\ IsVersion(prev.arg) /\ IsVersion(reply.arg)) =>
    cursor[reply.user] = Max(prev.arg, reply.arg)

\* C4 amended: after markSeen(user, v1) and markSeen(user, v2) have completed
\* one after the other, the stored lastSeenVersion is max(v1, v2) when the
\* user had no cursor before the two calls, and max(c, v1, v2) when the
\* cursor stored before them was c.
C4_MaxOfTwoAndPrior ==
  TwoMarkSeen =>
    cursor[reply.user] =
      IF prev.hadRow THEN Max(prev.prior, Max(prev.arg, reply.arg))
                     ELSE Max(prev.arg, reply.arg)

\* the second call carried the smaller, stale version
C4_Witness ==
  /\ TwoMarkSeen
  /\ ~prev.hadRow
  /\ prev.arg = 2
  /\ reply.arg = 1
  /\ cursor[reply.user] = 2

\* C5: the count getUnreadCount returns is the number of committed markers
\* with version > the user's lastSeenVersion whose blog was created after
\* the user's registration time minus one second.
C5_UnreadCount ==
  reply.op = "getUnreadCount" =>
    reply.count =
      Cardinality({k \in InHorizon(reply.user) :
                     markers[k].markerVersion > cursor[reply.user]})

\* two unseen markers, one of them outside the horizon
C5_Witness ==
  /\ reply.op = "getUnreadCount"
  /\ reply.user = "u1"
  /\ cursor["u1"] = 0
  /\ Len(markers) = 2
  /\ blogs[markers[1].blogId] = 3000
  /\ blogs[markers[2].blogId] = 4001
  /\ reply.count = 1

\* C6 as stated: for every version V, the count
\* updateLastSeenMarkerVersion(V) returns is the number of markers with
\* version > V inside the horizon.
C6_CountAfterArgument ==
  (reply.op = "markAsSeen" /\ IsVersion(reply.arg)) =>
    reply.count =
      Cardinality({k \in InHorizon(reply.user) :
                     markers[k].markerVersion > reply.arg})

\* C6 amended: the count updateLastSeenMarkerVersion(V) returns is the
\* number of markers inside the horizon with version > the lastSeenVersion
\* the call returns, which is max(c, V) for a user whose cursor was c and V
\* for a user with no cursor.
C6_CountAfterStored ==
  reply.op = "markAsSeen" =>
    LET stored == IF reply.hadRow THEN Max(reply.prior, reply.arg)
                                  ELSE reply.arg
    IN /\ reply.lsv = stored
       /\ cursor[reply.user] = stored
       /\ reply.count =
            Cardinality({k \in InHorizon(reply.user) :
                           markers[k].markerVersion > stored})

\* a stale V: marker 2 is visible, the cursor was 2 and stays 2
C6_Witness ==
  /\ reply.op = "markAsSeen"
  /\ reply.user = "u1"
  /\ reply.hadRow
  /\ reply.prior = 2
  /\ reply.arg = 1
  /\ Len(markers) = 2
  /\ blogs[markers[2].blogId] = 5001
  /\ reply.count = 0

FirstBlogOld(b) == IF b = 1 THEN UserCreatedAt(Me) - 2000 ELSE Now

NextClient ==
  \/ \E b \in BlogIds : MarkerSaved(b, FirstBlogOld(b))
  \/ \E kind \in {"all", "unread"} : Fetch(kind)
  \/ \E kind \in {"all", "unread"} : ServerAnswers(kind)
  \/ \E r \in cresp : ApplyAll(r)
  \/ \E r \in cresp : ApplyUnread(r)
  \/ \E v \in BlogIds : LiveReceipt(v)
  \/ SubscriptionError

SpecClient == Init /\ [][NextClient]_vars

\* C10: whatever live payloads and query results the client has taken in,
\* the same payload twice included, no two entries of its marker list have
\* the same markerVersion.
C10_NoDuplicateEntries ==
  \A j, k \in 1..Len(cmarkers) : j # k => cmarkers[j] # cmarkers[k]

\* the subscription has handed the client marker 1 twice and the list holds
\* both markers
C10_Witness ==
  /\ clive[1] = 2
  /\ Len(cmarkers) = 2


(* --------------------- claims: payload validation ---------------------- *)
NextPublish == \E p \in Payloads : PublishPayload(p)

SpecPublish == Init /\ [][NextPublish]_vars

NextWire == \E m \in Messages : OnWireMessage(m)

SpecWire == Init /\ [][NextWire]_vars

\* C13: publishing a payload is rejected with an error, and nothing is handed
\* to local listeners or sent to the bus, whenever the version is not a
\* positive integer, the blog or its id is missing, no author identifier is
\* resolvable from blog.author.id or blog.authorId, or the creation timestamp
\* is not a valid instant.
C13_InvalidPayloadRejected ==
  LET p == pub.payload
  IN (/\ pub.result # "none"
      /\ \/ ~IsPositiveInteger(p.markerVersion)
         \/ ~p.blog
         \/ ~p.blogId
         \/ ~(p.authorObjId \/ p.authorId)
         \/ p.createdAt # "date") =>
       (pub.result = "rejected" /\ ~pub.local /\ ~pub.bus)

\* C14: a channel message that does not parse, has no blog, has a version
\* that is not a number above 0, has no author or has an invalid timestamp is
\* dropped without being handed to a local listener; the subscriber keeps
\* running, and a valid message is handed on however many were dropped
\* before it.
C14_InvalidMessageDropped ==
  LET m == sub.msg
      listed == \/ ~m.parses
                \/ ~m.blog
                \/ ~(m.markerVersion.kind = "number" /\ m.markerVersion.halves > 0)
                \/ ~(m.authorObjId \/ m.authorId)
                \/ m.createdAt # "iso"
  IN sub.outcome # "none" =>
       /\ sub.alive
       /\ listed => sub.outcome = "dropped"
       /\ (~listed /\ m.blogId) => sub.outcome = "delivered"


(* ------------------------- claims: start and stop ---------------------- *)
NextLoop ==
  \/ StartProcessing
  \/ StopProcessing
  \/ \E h \in Handles : TimerCallback(h)
  \/ DequeueReturns
  \/ EventProcessed
  \/ LoopEnqueue

SpecLoop == Init /\ [][NextLoop]_vars

C19_StopIsCooperative ==
  [][~isProcessing' =>
       /\ nBrpop' <= nBrpop
       /\ timers' \subseteq timers
       /\ isProcessing => (nBrpop' = nBrpop /\ nEvent' = nEvent /\ lqueue' = lqueue)
       /\ nEvent' < nEvent => ldone' = ldone + 1]_vars

\* stop was called while an event was being processed; the event has been
\* processed since, and nothing is in flight or scheduled
C19_Witness ==
  /\ ~isProcessing
  /\ ldone > lstop
  /\ nBrpop = 0
  /\ nEvent = 0
  /\ timers = {}

(* --------------------- claims: duplicate delivery ---------------------- *)
\* the pipeline when an event can reach the workers more than once
NextResend ==
  \/ Authors(1..MaxBusBlogs)
  \/ Worker
  \/ \E b \in 1..MaxBusBlogs : EnqueueResent(b)

SpecResend == Init /\ [][NextResend]_vars

\* C21: however many times the event of a blog is delivered to the workers,
\* at most one marker is created for that blog.
C21_OneMarkerPerBlog ==
  \A j, k \in 1..Len(markers) :
    markers[j].blogId = markers[k].blogId => j = k

(* ------------------------ claims: worker crash ------------------------- *)
\* the pipeline when backend processes die and start again
NextCrash ==
  \/ Authors(BlogIds)
  \/ Worker
  \/ \E i \in Instances : Crash(i) \/ Restart(i)

SpecCrash == Init /\ [][NextCrash]_vars

\* C22: an event that a worker had dequeued when its process died, before the
\* marker was committed, is from then on neither on the queue nor in a
\* worker's hand, and no marker exists for its blog, whatever the workers do
\* after they restart.
C22_CrashLosesEvent ==
  \A b \in lost :
    /\ Count(queue, b) = 0
    /\ \A i \in Instances : wev[i] # b
    /\ \A k \in 1..Len(markers) : markers[k].blogId # b

\* an event was lost with a process that died after its INSERT; every
\* process runs again, the queue has been drained and the marker of the
\* other blog is committed
C22_Witness ==
  /\ lost # {}
  /\ seq > Len(markers)
  /\ Len(markers) >= 1
  /\ queue = <<>>
  /\ \A i \in Instances : wpc[i] \in {"timer", "brpop"}
  /\ \A b \in BlogIds : cres[b] = "ok"

(* ------------------------ claims: marker store ------------------------- *)
\* every operation that touches the marker table or reads it: blog creation
\* and deletion, the worker loops with their publishes and channel receipts,
\* and the requests of one user
NextStore ==
  \/ Authors(1..MaxBusBlogs)
  \/ \E b \in 1..MaxBusBlogs : RemoveBlog(b)
  \/ Worker
  \/ GetUserState(Me) /\ UNCHANGED prev
  \/ GetUnreadMarkers(Me) /\ UNCHANGED prev
  \/ GetAllMarkers(Me) /\ UNCHANGED prev
  \/ GetUnreadCount(Me) /\ UNCHANGED prev
  \/ \E v \in SeenArgs : UpdateLastSeenMarkerVersion(Me, v) /\ UNCHANGED prev

SpecStore == Init /\ [][NextStore]_vars

\* C23: every step keeps each existing marker row in place with its version
\* and its blog reference, and a step that adds a row is the commit of a
\* createMarker call made by a worker loop, adding the row of that call.
C23_InsertOnly ==
  [][/\ Len(markers') >= Len(markers)
     /\ \A k \in 1..Len(markers) : markers'[k] = markers[k]
     /\ markers' # markers =>
          \E i \in Instances :
            /\ wpc[i] = "commit"
            /\ wpc'[i] = "reread"
            /\ markers' = Append(markers, [markerVersion |-> wver[i],
                                           blogId |-> wev[i]])]_vars

\* a marker is committed and has been published on the channel, and the last
\* request served was a markAsSeen of that marker
C23_Witness ==
  /\ Len(markers) >= 1
  /\ sent # {}
  /\ reply.op = "markAsSeen"
  /\ reply.arg = markers[1].markerVersion

(* ------------------------ claims: lazy cursor -------------------------- *)
\* C24: a getUserState, getUnreadMarkers or getUnreadCount for a user without
\* a cursor row leaves that user with a row whose lastSeenMarkerVersion is 0;
\* for a user with a row it works with the stored lastSeenMarkerVersion and
\* leaves the row as it was. No read touches the row of another user.
C24_LazyCursor ==
  [][reply'.op \in ReadOps =>
       LET u == reply'.user
       IN /\ HasRow(u) => cursor' = cursor /\ reply'.lsv = cursor[u]
          /\ ~HasRow(u) =>
               /\ DOMAIN cursor' = DOMAIN cursor \cup {u}
               /\ cursor'[u] = 0
               /\ reply'.lsv = 0
               /\ \A x \in DOMAIN cursor : cursor'[x] = cursor[x]]_vars

\* a read was served for a user whose row held a version above 0, after a
\* read had created the row of the other user
C24_Witness ==
  /\ reply.op \in ReadOps
  /\ reply.hadRow
  /\ reply.lsv >= 1
  /\ cursor[reply.user] = reply.lsv
  /\ \E x \in DOMAIN cursor : x # reply.user /\ cursor[x] = 0

(* ----------------------- claims: cross-instance ------------------------ *)
\* one cycle of the worker loop of instance i, await by await
Loop(i) ==
  \/ TimerFires(i)
  \/ Dequeue(i)
  \/ DequeueNull(i)
  \/ FindBlog(i)
  \/ SaveInsert(i)
  \/ SaveCommit(i)
  \/ Reread(i)
  \/ PublishLocal(i)
  \/ PublishRedis(i)

\* Node runs every callback that is ready: the continuation of an await that
\* has settled or a fired timer (the loop of each instance goes on), and the
\* 'message' event of the subscriber connection
Scheduling ==
  \A i \in Instances : WF_vars(Loop(i)) /\ WF_vars(OnMessage(i))

\* listeners that connect without a cursor and stay
Listens == \E l \in Listeners : Subscribe(l, NoCursor)

\* the pipeline with Redis reachable throughout and listeners that stay
\* connected, fairly scheduled
NextDeliver == Authors(1..MaxBusBlogs) \/ Worker \/ Listens

SpecDeliver == Init /\ [][NextDeliver]_vars /\ Scheduling

\* C25: with the bus up, once createMarker has published version v locally,
\* every listener connected at that moment, on the publishing instance or on
\* the other one, is eventually handed v.
C25_EventuallyDelivered ==
  \A v \in 1..MaxBusBlogs : \A l \in Listeners :
    (l \in audience[v]) ~> (Count(received[l], v) >= 1)

\* version v went over the channel and both listeners, one on each instance,
\* connected since before its publish, have been handed it
C25_Witness ==
  \E v \in sent : \A l \in Listeners :
    /\ l \in audience[v]
    /\ lsub[l] = NoCursor
    /\ Count(received[l], v) >= 1

(* ------------------------ claims: reconnection ------------------------- *)
\* the client store over a connection that drops and comes back, every blog
\* written after the user registered
NextHeal ==
  \/ \E b \in BlogIds : MarkerSaved(b, Now)
  \/ \E kind \in {"all", "unread"} : Fetch(kind)
  \/ \E kind \in {"all", "unread"} : ServerAnswers(kind)
  \/ \E r \in cresp : ApplyAll(r)
  \/ \E r \in cresp : ApplyUnread(r)
  \/ \E v \in BlogIds : LiveReceipt(v)
  \/ SubscriptionError
  \/ SocketClosed
  \/ SocketReopened

SpecHeal == Init /\ [][NextHeal]_vars

\* C26: when the first payload after a reconnection arrives and the list,
\* with that payload in it, still lacks a committed marker visible to the
\* user, a fetch of all markers is under way.
C26_RefetchOnReconnect ==
  [][(/\ ws = "reopened"
      /\ clive' # clive
      /\ \E k \in Visible(Me) : ~Exists(cmarkers', markers[k].markerVersion))
       => "all" \in creq']_vars

(* ---------------------- claims: wire round trip ------------------------ *)
NextTrip == (\E p \in WirePayloads : SendOnWire(p)) \/ TakeOffWire

SpecTrip == Init /\ [][NextTrip]_vars

\* C27: the payload the subscriber rebuilds from the message of a valid
\* payload has the payload's markerVersion, blog id, title, content,
\* authorId, author id and username and the same blog and marker creation
\* instants, and its cursor is its markerVersion.
C27_WireRoundTrip ==
  trip.stage = "rebuilt" =>
    LET p == trip.payload
        r == trip.rebuilt
    IN /\ r.markerVersion = p.markerVersion
       /\ r.blogId = p.blogId
       /\ r.title = p.title
       /\ r.content = p.content
       /\ r.authorId = p.authorId
       /\ r.author.present = p.author.present
       /\ r.author.id = p.author.id
       /\ r.author.username = p.author.username
       /\ r.blogCreatedAt = p.blogCreatedAt
       /\ r.createdAt = p.createdAt
       /\ r.cursor = p.markerVersion

\* a payload with its cursor set to another version, a title with a quote
\* and a backslash, instants off the whole second and the author loaded has
\* been sent and rebuilt
C27_Witness ==
  /\ trip.stage = "rebuilt"
  /\ trip.payload.cursor \notin {0, trip.payload.markerVersion}
  /\ trip.payload.title = <<"a", "b", "q">>
  /\ trip.message.title # trip.payload.title
  /\ trip.payload.createdAt = 61001
  /\ trip.payload.blogCreatedAt = 999
  /\ trip.payload.author.present

(* ------------------------ claims: progress ----------------------------- *)
\* the pipeline with Redis and the database available throughout and no blog
\* deleted, the worker loops fairly scheduled
NextLive == Authors(BlogIds) \/ Worker

SpecLive == Init /\ [][NextLive]_vars /\ Scheduling

\* C28: while the workers keep running, the queue and the store are
\* available and no blog is deleted, an event that is on the queue leads to a
\* committed marker for its blog.
C28_EventLeadsToMarker ==
  \A b \in BlogIds :
    (Count(queue, b) >= 1) ~> (\E k \in 1..Len(markers) : markers[k].blogId = b)

\* every blog's event has been enqueued and dequeued and has its marker
C28_Witness ==
  /\ queue = <<>>
  /\ \A b \in BlogIds :
       cres[b] = "ok" /\ \E k \in 1..Len(markers) : markers[k].blogId = b

(* ------------------------- claims: queue order ------------------------- *)
\* one running instance: its worker loop and its subscriber, the authors,
\* Redis going away and coming back, and the order of the enqueues kept
NextSingle ==
  \/ \E b \in BlogIds : CreateSave(b, Now)
  \/ \E b \in BlogIds : CreateReload(b)
  \/ \E b \in BlogIds : CreateEnqueueOk(b) /\ enq' = Append(enq, b)
  \/ \E b \in BlogIds : CreateEnqueueFail(b)
  \/ \E b \in BlogIds : RemoveBlog(b)
  \/ Loop("i1")
  \/ OnMessage("i1")
  \/ RedisDown
  \/ RedisBack

SpecSingle == Init /\ [][NextSingle]_vars

\* C29: with one worker instance, when the event of blog A was enqueued
\* before the event of blog B and both blogs have a marker, the marker of A
\* has the smaller version.
C29_FifoOrder ==
  \A j, k \in 1..Len(enq) :
    j < k =>
      \A m, n \in 1..Len(markers) :
        (markers[m].blogId = enq[j] /\ markers[n].blogId = enq[k])
          => markers[m].markerVersion < markers[n].markerVersion

\* blog 2's event was enqueued before blog 1's, and both have their markers
C29_Witness ==
  /\ enq = <<2, 1>>
  /\ Len(markers) = 2
  /\ markers[1].blogId = 2

(* ------------------------- claims: the re-read ------------------------- *)
\* createMarker after its save: the re-read, and the publishes of the calls
\* whose re-read went through
NextReread ==
  \/ \E r1, r2 \in ReadOutcomes : MarkerReread(r1, r2)
  \/ \E p \in Payloads : rr.outcome = "ok" /\ PublishPayload(p)

SpecReread == Init /\ [][NextReread]_vars

\* C30: a createMarker call whose first re-read lacks the marker, its blog
\* or the author reads a second time and no more, and the call fails exactly
\* when the first read and the second are both incomplete.
C30_RetryOnce ==
  rr.outcome # "none" =>
    /\ rr.reads = (IF rr.first = "complete" THEN 1 ELSE 2)
    /\ rr.outcome = "error" <=>
         (rr.first # "complete" /\ rr.second # "complete")

(* ---------------------- claims: bus publish fails ---------------------- *)
\* the pipeline with listeners that stay connected and a Redis server that
\* goes away and comes back
NextOutage ==
  \/ Authors(1..MaxBusBlogs)
  \/ Worker
  \/ Listens
  \/ RedisDown
  \/ RedisBack

SpecOutage == Init /\ [][NextOutage]_vars

\* C31: when createMarker's publish to Redis fails, the call still returns
\* its marker, which is committed, and every listener that was registered on
\* the creating instance when the local publish ran has been handed it.
C31_BusFailureSwallowed ==
  [][\A i \in Instances :
       (wpc[i] = "publishRedis" /\ wpc'[i] # "publishRedis" /\ ~redisUp) =>
         /\ retMax' >= wver[i]
         /\ wver[i] \in Versions(markers')
         /\ sent' = sent
         /\ \A l \in audience[wver[i]] :
              ListenerInstance(l) = i => Count(received'[l], wver[i]) >= 1]_vars

\* createMarker has returned version 1, which never went over the channel,
\* and the listener registered on the creating instance holds it
C31_Witness ==
  /\ retMax = 1
  /\ 1 \notin sent
  /\ \E l \in audience[1] : received[l] = <<1>>

(* --------------------- claims: order of the client's list ------------- *)
\* C32: in whatever order marker versions reach the client, over the live
\* subscription or in the results of fetchAllMarkers and fetchUnreadMarkers,
\* its marker list is in descending order of markerVersion after every
\* receipt and every completed fetch.
C32_ListSortedDescending ==
  \A j, k \in 1..Len(cmarkers) : j < k => cmarkers[j] >= cmarkers[k]

\* version 2 came in live and version 1, the older one, in a fetch after it
C32_Witness ==
  /\ cmarkers = <<2, 1>>
  /\ clive[2] = 1
  /\ clive[1] = 0

(* --------------------- claims: persist before publish ----------------- *)
\* C33: whenever a listener is handed a marker payload, by the fan-out of the
\* instance that created the marker or by the channel handler of another
\* instance, the marker table holds a committed row with that version at
\* that moment.
C33_PersistBeforePublish ==
  [][\A l \in Listeners :
       received'[l] # received[l] =>
         /\ Len(received'[l]) = Len(received[l]) + 1
         /\ received'[l][Len(received'[l])] \in Versions(markers)]_vars

\* version 1 is committed and has reached one listener through the local
\* fan-out of the creating instance and another through the channel
C33_Witness ==
  /\ 1 \in Versions(markers)
  /\ 1 \in sent
  /\ \E l, k \in Listeners :
       /\ ListenerInstance(l) # ListenerInstance(k)
       /\ Count(received[l], 1) >= 1
       /\ Count(received[k], 1) >= 1

(* --------------------- claims: range of the cursor --------------------- *)
\* C34: every stored cursor row has lastSeenMarkerVersion >= 0: a markAsSeen
\* for a user without a row stores max(0, v), as it would had the row first
\* been created at 0.
C34_CursorNonNegative ==
  \A u \in DOMAIN cursor : cursor[u] >= 0

\* C35: a user's stored lastSeenMarkerVersion is never above the highest
\* committed marker version, so that a marker committed after a markAsSeen
\* has a version above the cursor and counts as unread.
C35_CursorAtMostCommitted ==
  \A u \in DOMAIN cursor :
    cursor[u] <= 0 \/ \E v \in Versions(markers) : cursor[u] <= v

(* --------------------- claims: the three read paths -------------------- *)
\* what getUnreadCount, getAllMarkers and getUnreadMarkers answer for user u
\* in the current state
CountNow(u) == UnreadCount(u, LazyLsv(u))
AllNow(u) == OrderBy(Visible(u), TRUE)
UnreadNow(u) == OrderBy(After(LazyLsv(u)), FALSE)

\* C36 as stated: in every state getUnreadCount(user) equals the number of
\* markers of getAllMarkers(user) with version > lastSeenVersion, and equals
\* the length of getUnreadMarkers(user).
C36_ReadPathsAgree ==
  \A u \in Users :
    /\ CountNow(u) =
         Cardinality({k \in 1..Len(AllNow(u)) : AllNow(u)[k] > LazyLsv(u)})
    /\ CountNow(u) = Len(UnreadNow(u))

\* C36 amended: in every state getUnreadCount(user) equals the number of
\* markers of getAllMarkers(user) with version > lastSeenVersion, and equals
\* the number of markers of getUnreadMarkers(user) whose blog was created
\* after the user's registration time minus one second; it is the length of
\* getUnreadMarkers(user) when every unread marker is of such a blog.
C36_ReadPathsAgreeInHorizon ==
  \A u \in Users :
    LET inside == {k \in 1..Len(UnreadNow(u)) :
                     \E j \in InHorizon(u) :
                       markers[j].markerVersion = UnreadNow(u)[k]}
    IN /\ CountNow(u) =
            Cardinality({k \in 1..Len(AllNow(u)) : AllNow(u)[k] > LazyLsv(u)})
       /\ CountNow(u) = Cardinality(inside)
       /\ inside = 1..Len(UnreadNow(u)) => CountNow(u) = Len(UnreadNow(u))

\* the user has read nothing; of two markers one is for a blog written 2 s
\* before the registration: the count served is 1 and two markers are unread
C36_Witness ==
  /\ reply.op = "getUnreadCount"
  /\ reply.user = "u1"
  /\ reply.count = 1
  /\ cursor["u1"] = 0
  /\ Len(UnreadNow("u1")) = 2
  /\ AllNow("u1") = <<2>>

(* --------------------- claims: the client's list keeps entries -------- *)
\* C37: as long as clear() is not called, no step removes an entry from the
\* client's marker list: a marker received over the live subscription stays
\* in the list however the responses of fetchAllMarkers and
\* fetchUnreadMarkers in flight interleave with it.
C37_ListNeverLosesEntry ==
  [][\A v \in BlogIds : Exists(cmarkers, v) => Exists(cmarkers', v)]_vars

(* --------------------- claims: createMarker fails after its save ------- *)
\* the pipeline with createMarker calls that throw after their save, blogs
\* written before and after the users registered, listeners, and one user
\* moving the cursor while the other has none
NextFail ==
  \/ \E b \in 1..MaxBusBlogs :
       \/ \E t \in {FirstBlogOld(b), Now} : CreateSave(b, t)
       \/ CreateReload(b)
       \/ CreateEnqueueOk(b) /\ UNCHANGED enq
  \/ Worker
  \/ \E i \in Instances : CreateMarkerThrows(i)
  \/ Listens
  \/ \E v \in 1..MaxBusBlogs :
       UpdateLastSeenMarkerVersion(Me, v) /\ UNCHANGED prev

SpecFail == Init /\ [][NextFail]_vars

\* C38: once createMarker has thrown after inserting its row, the row stays
\* committed and its version is not given out again; getAllMarkers returns
\* the marker and getUnreadCount counts it, for the users whose horizon and
\* cursor admit it like any other marker; and no listener is handed it, on
\* the local fan-out or over the channel.
C38_FailedMarkerStays ==
  \A v \in failed :
    /\ v \in Versions(markers)
    /\ seq >= v
    /\ \A i \in Instances : wver[i] # v /\ Count(inbox[i], v) = 0
    /\ v \notin sent
    /\ \A l \in Listeners : Count(received[l], v) = 0
    /\ \A u \in Users :
         (\E k \in InHorizon(u) : markers[k].markerVersion = v) =>
           /\ Exists(AllNow(u), v)
           /\ LazyLsv(u) < v =>
                /\ CountNow(u) >= 1
                /\ CountNow(u) =
                     Cardinality({k \in InHorizon(u) :
                                    markers[k].markerVersion > LazyLsv(u)})

\* the call for version 1 has thrown and its worker is in its loop: a
\* listener connected all along was handed nothing, one user counts the
\* marker as unread and one has marked it seen
C38_Witness ==
  /\ failed = {1}
  /\ \A i \in Instances : wev[i] = None
  /\ \E l \in Listeners : lsub[l] = NoCursor /\ received[l] = <<>>
  /\ \E u \in Users : CountNow(u) = 1 /\ Exists(AllNow(u), 1)
  /\ \E u \in Users : HasRow(u) /\ cursor[u] = 1 /\ CountNow(u) = 0

(* --------------------- the queue connection of an instance ------------- *)
\* NotificationQueueService has one Redis client (this.redis): the lpush of
\* enqueueBlogCreatedEvent and the brpop of dequeueBlogCreatedEvent of an
\* instance travel over the same connection. The server takes the commands
\* of a connection in the order they were written and reads no further
\* while a brpop of that connection waits.

\* the instance whose BlogService runs the create of blog b
ServedBy(b) == IF b % 2 = 1 THEN "i1" ELSE "i2"

\* an lpush written to the connection of instance i before its brpop
LpushAhead(i) == \E b \in BlogIds : ServedBy(b) = i /\ cpc[b] = "enqueue"

\* the brpop of instance i is answered: the lpushes written behind it are
\* now at the head of the connection
Released(i) ==
  [b \in BlogIds |->
     IF ServedBy(b) = i /\ cpc[b] = "enqueueBehind" THEN "enqueue" ELSE cpc[b]]

\* create, after the reload: redis.lpush is written to the connection, behind
\* the brpop of the instance's worker when that one is waiting
EnqueueIssued(b) ==
  /\ cpc[b] = "reload"
  /\ b \in DOMAIN blogs
  /\ cpc' = [cpc EXCEPT ![b] = IF wpc[ServedBy(b)] = "brpop" THEN "enqueueBehind"
                                ELSE "enqueue"]
  /\ UNCHANGED <<auxVars, blogs, cres, redisUp, queue, seq, markers, wpc, wev, wver,
                 wfloor, retMax, busVars, cursorVars, queryVars, clientVars>>

\* redis.brpop(QUEUE_NAME, 1) hands over the tail of the list
DequeueShared(i) ==
  /\ wpc[i] = "brpop"
  /\ redisUp
  /\ ~LpushAhead(i)
  /\ queue # <<>>
  /\ wev' = [wev EXCEPT ![i] = queue[Len(queue)]]
  /\ queue' = SubSeq(queue, 1, Len(queue) - 1)
  /\ wpc' = [wpc EXCEPT ![i] = "findOne"]
  /\ cpc' = Released(i)
  /\ UNCHANGED <<auxVars, blogs, cres, redisUp, seq, markers, wver, wfloor,
                 retMax, busVars, cursorVars, queryVars, clientVars>>

\* a brpop without a timeout: on an empty list the wait goes on
DequeueWaitsOn(i) ==
  /\ wpc[i] = "brpop"
  /\ redisUp
  /\ ~LpushAhead(i)
  /\ queue = <<>>
  /\ UNCHANGED vars

\* redis.brpop(QUEUE_NAME, 1) on an empty list: after the timeout of one
\* second the server answers null and the finally block schedules the next
\* cycle
DequeueNullShared(i) ==
  /\ wpc[i] = "brpop"
  /\ redisUp
  /\ ~LpushAhead(i)
  /\ queue = <<>>
  /\ wpc' = [wpc EXCEPT ![i] = "timer"]
  /\ outage' = [outage EXCEPT ![i] = FALSE]
  /\ cpc' = Released(i)
  /\ UNCHANGED <<wireVars, loopVars, histVars, enq, blogs, cres, redisUp, queue, seq,
                 markers, wev, wver, wfloor, retMax, busVars, cursorVars, queryVars,
                 clientVars>>

\* one cycle of the worker loop of instance i over the shared connection
LoopShared(i) ==
  \/ TimerFires(i)
  \/ DequeueShared(i)
  \/ DequeueNullShared(i)
  \/ FindBlog(i)
  \/ SaveInsert(i)
  \/ SaveCommit(i)
  \/ Reread(i)
  \/ PublishLocal(i)
  \/ PublishRedis(i)

EnqueueDone(b) == CreateEnqueueOk(b) /\ UNCHANGED enq

NextShared ==
  \/ \E b \in 1..MaxBusBlogs : CreateSave(b, Now)
  \/ \E b \in 1..MaxBusBlogs : EnqueueIssued(b)
  \/ \E b \in 1..MaxBusBlogs : EnqueueDone(b)
  \/ \E i \in Instances : LoopShared(i)
  \/ \E i \in Instances : OnMessage(i)
  \/ Listens

\* Node runs every callback that is ready, and the Redis server executes the
\* command at the head of every connection
SchedulingShared ==
  /\ \A i \in Instances : WF_vars(LoopShared(i)) /\ WF_vars(OnMessage(i))
  /\ \A b \in 1..MaxBusBlogs : WF_vars(EnqueueDone(b))

SpecShared == Init /\ [][NextShared]_vars /\ SchedulingShared

\* C39: an lpush written to an instance's connection while the brpop of the
\* instance's own worker waits on it is executed in the end, its create call
\* returns, and the event is dequeued by some worker: the brpop's timeout
\* bounds the wait, so producer and worker do not block each other for good.
C39_EnqueueBehindBrpopCompletes ==
  \A b \in 1..MaxBusBlogs :
    /\ (cpc[b] = "enqueueBehind") ~> (cpc[b] = "done" /\ cres[b] = "ok")
    /\ (cpc[b] = "enqueueBehind") ~> (\E i \in Instances : wev[i] = b)

\* the lpush for blog 1 is written while its instance's brpop waits on the
\* empty list
C39_Witness ==
  /\ cpc[1] = "enqueueBehind"
  /\ wpc[ServedBy(1)] = "brpop"
  /\ queue = <<>>

(* --------------------- claims: reconnection delay ---------------------- *)
NextRetry == (\E c \in Connections : ConnectionClosed(c)) \/ Connected

SpecRetry == Init /\ [][NextRetry]_vars

=============================================================================
